---- MODULE Spec2Model ----
(***************************************************************************)
(* Model of cria-hiperlinks: the matcher (metadata extraction, tokenizer,  *)
(* date permutations, scoring, classifier), the App session state and its  *)
(* handlers (folder upload, reconciliation, Excel processing, project      *)
(* save/load), the handlers of the results table (manual files, validate,  *)
(* ignore), the call of the disambiguation oracle and the export of the    *)
(* workbook (excelHelper).                                                 *)
(*                                                                         *)
(* A JavaScript string is a sequence of its UTF-16 code units, each        *)
(* written as a one-character TLA+ string; a code unit outside printable   *)
(* ASCII is written "U+XXXX" (four hexadecimal digits, upper case), except *)
(* the tab, line feed, form feed and carriage return, which have the       *)
(* escapes of TLA+; the grave accent is written "U+0060".  A character     *)
(* outside the Basic Multilingual Plane is the two code units of its       *)
(* surrogate pair; where a table is about such characters it names them by *)
(* their code points, as numbers.  The character data are those of Unicode *)
(* 17.0.  A JavaScript number holding a score is an IEEE 754 double: a     *)
(* record of its 53 binary digits and its exponent (see Numbers).  An      *)
(* optional field is Absent (undefined) or Some(v).                        *)
(***************************************************************************)
EXTENDS Integers, Sequences, FiniteSets, Bags, TLC

(***************************************************************************)
(* Characters and regular-expression classes                               *)
(***************************************************************************)
\* the characters of the Basic Multilingual Plane that String.prototype.toLowerCase
\* changes into another one; U+0130, which it changes into two, is not among them
UpperLetters ==
  <<
    "A", "B", "C", "D", "E", "F", "G", "H", "I", "J", "K", "L", "M", "N", "O", "P", "Q", "R",
    "S", "T", "U", "V", "W", "X", "Y", "Z", "U+00C0", "U+00C1", "U+00C2", "U+00C3", "U+00C4",
    "U+00C5", "U+00C6", "U+00C7", "U+00C8", "U+00C9", "U+00CA", "U+00CB", "U+00CC", "U+00CD",
    "U+00CE", "U+00CF", "U+00D0", "U+00D1", "U+00D2", "U+00D3", "U+00D4", "U+00D5", "U+00D6",
    "U+00D8", "U+00D9", "U+00DA", "U+00DB", "U+00DC", "U+00DD", "U+00DE", "U+0100", "U+0102",
    "U+0104", "U+0106", "U+0108", "U+010A", "U+010C", "U+010E", "U+0110", "U+0112", "U+0114",
    "U+0116", "U+0118", "U+011A", "U+011C", "U+011E", "U+0120", "U+0122", "U+0124", "U+0126",
    "U+0128", "U+012A", "U+012C", "U+012E", "U+0132", "U+0134", "U+0136", "U+0139", "U+013B",
    "U+013D", "U+013F", "U+0141", "U+0143", "U+0145", "U+0147", "U+014A", "U+014C", "U+014E",
    "U+0150", "U+0152", "U+0154", "U+0156", "U+0158", "U+015A", "U+015C", "U+015E", "U+0160",
    "U+0162", "U+0164", "U+0166", "U+0168", "U+016A", "U+016C", "U+016E", "U+0170", "U+0172",
    "U+0174", "U+0176", "U+0178", "U+0179", "U+017B", "U+017D", "U+0181", "U+0182", "U+0184",
    "U+0186", "U+0187", "U+0189", "U+018A", "U+018B", "U+018E", "U+018F", "U+0190", "U+0191",
    "U+0193", "U+0194", "U+0196", "U+0197", "U+0198", "U+019C", "U+019D", "U+019F", "U+01A0",
    "U+01A2", "U+01A4", "U+01A6", "U+01A7", "U+01A9", "U+01AC", "U+01AE", "U+01AF", "U+01B1",
    "U+01B2", "U+01B3", "U+01B5", "U+01B7", "U+01B8", "U+01BC", "U+01C4", "U+01C5", "U+01C7",
    "U+01C8", "U+01CA", "U+01CB", "U+01CD", "U+01CF", "U+01D1", "U+01D3", "U+01D5", "U+01D7",
    "U+01D9", "U+01DB", "U+01DE", "U+01E0", "U+01E2", "U+01E4", "U+01E6", "U+01E8", "U+01EA",
    "U+01EC", "U+01EE", "U+01F1", "U+01F2", "U+01F4", "U+01F6", "U+01F7", "U+01F8", "U+01FA",
    "U+01FC", "U+01FE", "U+0200", "U+0202", "U+0204", "U+0206", "U+0208", "U+020A", "U+020C",
    "U+020E", "U+0210", "U+0212", "U+0214", "U+0216", "U+0218", "U+021A", "U+021C", "U+021E",
    "U+0220", "U+0222", "U+0224", "U+0226", "U+0228", "U+022A", "U+022C", "U+022E", "U+0230",
    "U+0232", "U+023A", "U+023B", "U+023D", "U+023E", "U+0241", "U+0243", "U+0244", "U+0245",
    "U+0246", "U+0248", "U+024A", "U+024C", "U+024E", "U+0370", "U+0372", "U+0376", "U+037F",
    "U+0386", "U+0388", "U+0389", "U+038A", "U+038C", "U+038E", "U+038F", "U+0391", "U+0392",
    "U+0393", "U+0394", "U+0395", "U+0396", "U+0397", "U+0398", "U+0399", "U+039A", "U+039B",
    "U+039C", "U+039D", "U+039E", "U+039F", "U+03A0", "U+03A1", "U+03A3", "U+03A4", "U+03A5",
    "U+03A6", "U+03A7", "U+03A8", "U+03A9", "U+03AA", "U+03AB", "U+03CF", "U+03D8", "U+03DA",
    "U+03DC", "U+03DE", "U+03E0", "U+03E2", "U+03E4", "U+03E6", "U+03E8", "U+03EA", "U+03EC",
    "U+03EE", "U+03F4", "U+03F7", "U+03F9", "U+03FA", "U+03FD", "U+03FE", "U+03FF", "U+0400",
    "U+0401", "U+0402", "U+0403", "U+0404", "U+0405", "U+0406", "U+0407", "U+0408", "U+0409",
    "U+040A", "U+040B", "U+040C", "U+040D", "U+040E", "U+040F", "U+0410", "U+0411", "U+0412",
    "U+0413", "U+0414", "U+0415", "U+0416", "U+0417", "U+0418", "U+0419", "U+041A", "U+041B",
    "U+041C", "U+041D", "U+041E", "U+041F", "U+0420", "U+0421", "U+0422", "U+0423", "U+0424",
    "U+0425", "U+0426", "U+0427", "U+0428", "U+0429", "U+042A", "U+042B", "U+042C", "U+042D",
    "U+042E", "U+042F", "U+0460", "U+0462", "U+0464", "U+0466", "U+0468", "U+046A", "U+046C",
    "U+046E", "U+0470", "U+0472", "U+0474", "U+0476", "U+0478", "U+047A", "U+047C", "U+047E",
    "U+0480", "U+048A", "U+048C", "U+048E", "U+0490", "U+0492", "U+0494", "U+0496", "U+0498",
    "U+049A", "U+049C", "U+049E", "U+04A0", "U+04A2", "U+04A4", "U+04A6", "U+04A8", "U+04AA",
    "U+04AC", "U+04AE", "U+04B0", "U+04B2", "U+04B4", "U+04B6", "U+04B8", "U+04BA", "U+04BC",
    "U+04BE", "U+04C0", "U+04C1", "U+04C3", "U+04C5", "U+04C7", "U+04C9", "U+04CB", "U+04CD",
    "U+04D0", "U+04D2", "U+04D4", "U+04D6", "U+04D8", "U+04DA", "U+04DC", "U+04DE", "U+04E0",
    "U+04E2", "U+04E4", "U+04E6", "U+04E8", "U+04EA", "U+04EC", "U+04EE", "U+04F0", "U+04F2",
    "U+04F4", "U+04F6", "U+04F8", "U+04FA", "U+04FC", "U+04FE", "U+0500", "U+0502", "U+0504",
    "U+0506", "U+0508", "U+050A", "U+050C", "U+050E", "U+0510", "U+0512", "U+0514", "U+0516",
    "U+0518", "U+051A", "U+051C", "U+051E", "U+0520", "U+0522", "U+0524", "U+0526", "U+0528",
    "U+052A", "U+052C", "U+052E", "U+0531", "U+0532", "U+0533", "U+0534", "U+0535", "U+0536",
    "U+0537", "U+0538", "U+0539", "U+053A", "U+053B", "U+053C", "U+053D", "U+053E", "U+053F",
    "U+0540", "U+0541", "U+0542", "U+0543", "U+0544", "U+0545", "U+0546", "U+0547", "U+0548",
    "U+0549", "U+054A", "U+054B", "U+054C", "U+054D", "U+054E", "U+054F", "U+0550", "U+0551",
    "U+0552", "U+0553", "U+0554", "U+0555", "U+0556", "U+10A0", "U+10A1", "U+10A2", "U+10A3",
    "U+10A4", "U+10A5", "U+10A6", "U+10A7", "U+10A8", "U+10A9", "U+10AA", "U+10AB", "U+10AC",
    "U+10AD", "U+10AE", "U+10AF", "U+10B0", "U+10B1", "U+10B2", "U+10B3", "U+10B4", "U+10B5",
    "U+10B6", "U+10B7", "U+10B8", "U+10B9", "U+10BA", "U+10BB", "U+10BC", "U+10BD", "U+10BE",
    "U+10BF", "U+10C0", "U+10C1", "U+10C2", "U+10C3", "U+10C4", "U+10C5", "U+10C7", "U+10CD",
    "U+13A0", "U+13A1", "U+13A2", "U+13A3", "U+13A4", "U+13A5", "U+13A6", "U+13A7", "U+13A8",
    "U+13A9", "U+13AA", "U+13AB", "U+13AC", "U+13AD", "U+13AE", "U+13AF", "U+13B0", "U+13B1",
    "U+13B2", "U+13B3", "U+13B4", "U+13B5", "U+13B6", "U+13B7", "U+13B8", "U+13B9", "U+13BA",
    "U+13BB", "U+13BC", "U+13BD", "U+13BE", "U+13BF", "U+13C0", "U+13C1", "U+13C2", "U+13C3",
    "U+13C4", "U+13C5", "U+13C6", "U+13C7", "U+13C8", "U+13C9", "U+13CA", "U+13CB", "U+13CC",
    "U+13CD", "U+13CE", "U+13CF", "U+13D0", "U+13D1", "U+13D2", "U+13D3", "U+13D4", "U+13D5",
    "U+13D6", "U+13D7", "U+13D8", "U+13D9", "U+13DA", "U+13DB", "U+13DC", "U+13DD", "U+13DE",
    "U+13DF", "U+13E0", "U+13E1", "U+13E2", "U+13E3", "U+13E4", "U+13E5", "U+13E6", "U+13E7",
    "U+13E8", "U+13E9", "U+13EA", "U+13EB", "U+13EC", "U+13ED", "U+13EE", "U+13EF", "U+13F0",
    "U+13F1", "U+13F2", "U+13F3", "U+13F4", "U+13F5", "U+1C89", "U+1C90", "U+1C91", "U+1C92",
    "U+1C93", "U+1C94", "U+1C95", "U+1C96", "U+1C97", "U+1C98", "U+1C99", "U+1C9A", "U+1C9B",
    "U+1C9C", "U+1C9D", "U+1C9E", "U+1C9F", "U+1CA0", "U+1CA1", "U+1CA2", "U+1CA3", "U+1CA4",
    "U+1CA5", "U+1CA6", "U+1CA7", "U+1CA8", "U+1CA9", "U+1CAA", "U+1CAB", "U+1CAC", "U+1CAD",
    "U+1CAE", "U+1CAF", "U+1CB0", "U+1CB1", "U+1CB2", "U+1CB3", "U+1CB4", "U+1CB5", "U+1CB6",
    "U+1CB7", "U+1CB8", "U+1CB9", "U+1CBA", "U+1CBD", "U+1CBE", "U+1CBF", "U+1E00", "U+1E02",
    "U+1E04", "U+1E06", "U+1E08", "U+1E0A", "U+1E0C", "U+1E0E", "U+1E10", "U+1E12", "U+1E14",
    "U+1E16", "U+1E18", "U+1E1A", "U+1E1C", "U+1E1E", "U+1E20", "U+1E22", "U+1E24", "U+1E26",
    "U+1E28", "U+1E2A", "U+1E2C", "U+1E2E", "U+1E30", "U+1E32", "U+1E34", "U+1E36", "U+1E38",
    "U+1E3A", "U+1E3C", "U+1E3E", "U+1E40", "U+1E42", "U+1E44", "U+1E46", "U+1E48", "U+1E4A",
    "U+1E4C", "U+1E4E", "U+1E50", "U+1E52", "U+1E54", "U+1E56", "U+1E58", "U+1E5A", "U+1E5C",
    "U+1E5E", "U+1E60", "U+1E62", "U+1E64", "U+1E66", "U+1E68", "U+1E6A", "U+1E6C", "U+1E6E",
    "U+1E70", "U+1E72", "U+1E74", "U+1E76", "U+1E78", "U+1E7A", "U+1E7C", "U+1E7E", "U+1E80",
    "U+1E82", "U+1E84", "U+1E86", "U+1E88", "U+1E8A", "U+1E8C", "U+1E8E", "U+1E90", "U+1E92",
    "U+1E94", "U+1E9E", "U+1EA0", "U+1EA2", "U+1EA4", "U+1EA6", "U+1EA8", "U+1EAA", "U+1EAC",
    "U+1EAE", "U+1EB0", "U+1EB2", "U+1EB4", "U+1EB6", "U+1EB8", "U+1EBA", "U+1EBC", "U+1EBE",
    "U+1EC0", "U+1EC2", "U+1EC4", "U+1EC6", "U+1EC8", "U+1ECA", "U+1ECC", "U+1ECE", "U+1ED0",
    "U+1ED2", "U+1ED4", "U+1ED6", "U+1ED8", "U+1EDA", "U+1EDC", "U+1EDE", "U+1EE0", "U+1EE2",
    "U+1EE4", "U+1EE6", "U+1EE8", "U+1EEA", "U+1EEC", "U+1EEE", "U+1EF0", "U+1EF2", "U+1EF4",
    "U+1EF6", "U+1EF8", "U+1EFA", "U+1EFC", "U+1EFE", "U+1F08", "U+1F09", "U+1F0A", "U+1F0B",
    "U+1F0C", "U+1F0D", "U+1F0E", "U+1F0F", "U+1F18", "U+1F19", "U+1F1A", "U+1F1B", "U+1F1C",
    "U+1F1D", "U+1F28", "U+1F29", "U+1F2A", "U+1F2B", "U+1F2C", "U+1F2D", "U+1F2E", "U+1F2F",
    "U+1F38", "U+1F39", "U+1F3A", "U+1F3B", "U+1F3C", "U+1F3D", "U+1F3E", "U+1F3F", "U+1F48",
    "U+1F49", "U+1F4A", "U+1F4B", "U+1F4C", "U+1F4D", "U+1F59", "U+1F5B", "U+1F5D", "U+1F5F",
    "U+1F68", "U+1F69", "U+1F6A", "U+1F6B", "U+1F6C", "U+1F6D", "U+1F6E", "U+1F6F", "U+1F88",
    "U+1F89", "U+1F8A", "U+1F8B", "U+1F8C", "U+1F8D", "U+1F8E", "U+1F8F", "U+1F98", "U+1F99",
    "U+1F9A", "U+1F9B", "U+1F9C", "U+1F9D", "U+1F9E", "U+1F9F", "U+1FA8", "U+1FA9", "U+1FAA",
    "U+1FAB", "U+1FAC", "U+1FAD", "U+1FAE", "U+1FAF", "U+1FB8", "U+1FB9", "U+1FBA", "U+1FBB",
    "U+1FBC", "U+1FC8", "U+1FC9", "U+1FCA", "U+1FCB", "U+1FCC", "U+1FD8", "U+1FD9", "U+1FDA",
    "U+1FDB", "U+1FE8", "U+1FE9", "U+1FEA", "U+1FEB", "U+1FEC", "U+1FF8", "U+1FF9", "U+1FFA",
    "U+1FFB", "U+1FFC", "U+2126", "U+212A", "U+212B", "U+2132", "U+2160", "U+2161", "U+2162",
    "U+2163", "U+2164", "U+2165", "U+2166", "U+2167", "U+2168", "U+2169", "U+216A", "U+216B",
    "U+216C", "U+216D", "U+216E", "U+216F", "U+2183", "U+24B6", "U+24B7", "U+24B8", "U+24B9",
    "U+24BA", "U+24BB", "U+24BC", "U+24BD", "U+24BE", "U+24BF", "U+24C0", "U+24C1", "U+24C2",
    "U+24C3", "U+24C4", "U+24C5", "U+24C6", "U+24C7", "U+24C8", "U+24C9", "U+24CA", "U+24CB",
    "U+24CC", "U+24CD", "U+24CE", "U+24CF", "U+2C00", "U+2C01", "U+2C02", "U+2C03", "U+2C04",
    "U+2C05", "U+2C06", "U+2C07", "U+2C08", "U+2C09", "U+2C0A", "U+2C0B", "U+2C0C", "U+2C0D",
    "U+2C0E", "U+2C0F", "U+2C10", "U+2C11", "U+2C12", "U+2C13", "U+2C14", "U+2C15", "U+2C16",
    "U+2C17", "U+2C18", "U+2C19", "U+2C1A", "U+2C1B", "U+2C1C", "U+2C1D", "U+2C1E", "U+2C1F",
    "U+2C20", "U+2C21", "U+2C22", "U+2C23", "U+2C24", "U+2C25", "U+2C26", "U+2C27", "U+2C28",
    "U+2C29", "U+2C2A", "U+2C2B", "U+2C2C", "U+2C2D", "U+2C2E", "U+2C2F", "U+2C60", "U+2C62",
    "U+2C63", "U+2C64", "U+2C67", "U+2C69", "U+2C6B", "U+2C6D", "U+2C6E", "U+2C6F", "U+2C70",
    "U+2C72", "U+2C75", "U+2C7E", "U+2C7F", "U+2C80", "U+2C82", "U+2C84", "U+2C86", "U+2C88",
    "U+2C8A", "U+2C8C", "U+2C8E", "U+2C90", "U+2C92", "U+2C94", "U+2C96", "U+2C98", "U+2C9A",
    "U+2C9C", "U+2C9E", "U+2CA0", "U+2CA2", "U+2CA4", "U+2CA6", "U+2CA8", "U+2CAA", "U+2CAC",
    "U+2CAE", "U+2CB0", "U+2CB2", "U+2CB4", "U+2CB6", "U+2CB8", "U+2CBA", "U+2CBC", "U+2CBE",
    "U+2CC0", "U+2CC2", "U+2CC4", "U+2CC6", "U+2CC8", "U+2CCA", "U+2CCC", "U+2CCE", "U+2CD0",
    "U+2CD2", "U+2CD4", "U+2CD6", "U+2CD8", "U+2CDA", "U+2CDC", "U+2CDE", "U+2CE0", "U+2CE2",
    "U+2CEB", "U+2CED", "U+2CF2", "U+A640", "U+A642", "U+A644", "U+A646", "U+A648", "U+A64A",
    "U+A64C", "U+A64E", "U+A650", "U+A652", "U+A654", "U+A656", "U+A658", "U+A65A", "U+A65C",
    "U+A65E", "U+A660", "U+A662", "U+A664", "U+A666", "U+A668", "U+A66A", "U+A66C", "U+A680",
    "U+A682", "U+A684", "U+A686", "U+A688", "U+A68A", "U+A68C", "U+A68E", "U+A690", "U+A692",
    "U+A694", "U+A696", "U+A698", "U+A69A", "U+A722", "U+A724", "U+A726", "U+A728", "U+A72A",
    "U+A72C", "U+A72E", "U+A732", "U+A734", "U+A736", "U+A738", "U+A73A", "U+A73C", "U+A73E",
    "U+A740", "U+A742", "U+A744", "U+A746", "U+A748", "U+A74A", "U+A74C", "U+A74E", "U+A750",
    "U+A752", "U+A754", "U+A756", "U+A758", "U+A75A", "U+A75C", "U+A75E", "U+A760", "U+A762",
    "U+A764", "U+A766", "U+A768", "U+A76A", "U+A76C", "U+A76E", "U+A779", "U+A77B", "U+A77D",
    "U+A77E", "U+A780", "U+A782", "U+A784", "U+A786", "U+A78B", "U+A78D", "U+A790", "U+A792",
    "U+A796", "U+A798", "U+A79A", "U+A79C", "U+A79E", "U+A7A0", "U+A7A2", "U+A7A4", "U+A7A6",
    "U+A7A8", "U+A7AA", "U+A7AB", "U+A7AC", "U+A7AD", "U+A7AE", "U+A7B0", "U+A7B1", "U+A7B2",
    "U+A7B3", "U+A7B4", "U+A7B6", "U+A7B8", "U+A7BA", "U+A7BC", "U+A7BE", "U+A7C0", "U+A7C2",
    "U+A7C4", "U+A7C5", "U+A7C6", "U+A7C7", "U+A7C9", "U+A7CB", "U+A7CC", "U+A7CE", "U+A7D0",
    "U+A7D2", "U+A7D4", "U+A7D6", "U+A7D8", "U+A7DA", "U+A7DC", "U+A7F5", "U+FF21", "U+FF22",
    "U+FF23", "U+FF24", "U+FF25", "U+FF26", "U+FF27", "U+FF28", "U+FF29", "U+FF2A", "U+FF2B",
    "U+FF2C", "U+FF2D", "U+FF2E", "U+FF2F", "U+FF30", "U+FF31", "U+FF32", "U+FF33", "U+FF34",
    "U+FF35", "U+FF36", "U+FF37", "U+FF38", "U+FF39", "U+FF3A" >>

\* what toLowerCase makes of each character of UpperLetters, in the same order
LowerLetters ==
  <<
    "a", "b", "c", "d", "e", "f", "g", "h", "i", "j", "k", "l", "m", "n", "o", "p", "q", "r",
    "s", "t", "u", "v", "w", "x", "y", "z", "U+00E0", "U+00E1", "U+00E2", "U+00E3", "U+00E4",
    "U+00E5", "U+00E6", "U+00E7", "U+00E8", "U+00E9", "U+00EA", "U+00EB", "U+00EC", "U+00ED",
    "U+00EE", "U+00EF", "U+00F0", "U+00F1", "U+00F2", "U+00F3", "U+00F4", "U+00F5", "U+00F6",
    "U+00F8", "U+00F9", "U+00FA", "U+00FB", "U+00FC", "U+00FD", "U+00FE", "U+0101", "U+0103",
    "U+0105", "U+0107", "U+0109", "U+010B", "U+010D", "U+010F", "U+0111", "U+0113", "U+0115",
    "U+0117", "U+0119", "U+011B", "U+011D", "U+011F", "U+0121", "U+0123", "U+0125", "U+0127",
    "U+0129", "U+012B", "U+012D", "U+012F", "U+0133", "U+0135", "U+0137", "U+013A", "U+013C",
    "U+013E", "U+0140", "U+0142", "U+0144", "U+0146", "U+0148", "U+014B", "U+014D", "U+014F",
    "U+0151", "U+0153", "U+0155", "U+0157", "U+0159", "U+015B", "U+015D", "U+015F", "U+0161",
    "U+0163", "U+0165", "U+0167", "U+0169", "U+016B", "U+016D", "U+016F", "U+0171", "U+0173",
    "U+0175", "U+0177", "U+00FF", "U+017A", "U+017C", "U+017E", "U+0253", "U+0183", "U+0185",
    "U+0254", "U+0188", "U+0256", "U+0257", "U+018C", "U+01DD", "U+0259", "U+025B", "U+0192",
    "U+0260", "U+0263", "U+0269", "U+0268", "U+0199", "U+026F", "U+0272", "U+0275", "U+01A1",
    "U+01A3", "U+01A5", "U+0280", "U+01A8", "U+0283", "U+01AD", "U+0288", "U+01B0", "U+028A",
    "U+028B", "U+01B4", "U+01B6", "U+0292", "U+01B9", "U+01BD", "U+01C6", "U+01C6", "U+01C9",
    "U+01C9", "U+01CC", "U+01CC", "U+01CE", "U+01D0", "U+01D2", "U+01D4", "U+01D6", "U+01D8",
    "U+01DA", "U+01DC", "U+01DF", "U+01E1", "U+01E3", "U+01E5", "U+01E7", "U+01E9", "U+01EB",
    "U+01ED", "U+01EF", "U+01F3", "U+01F3", "U+01F5", "U+0195", "U+01BF", "U+01F9", "U+01FB",
    "U+01FD", "U+01FF", "U+0201", "U+0203", "U+0205", "U+0207", "U+0209", "U+020B", "U+020D",
    "U+020F", "U+0211", "U+0213", "U+0215", "U+0217", "U+0219", "U+021B", "U+021D", "U+021F",
    "U+019E", "U+0223", "U+0225", "U+0227", "U+0229", "U+022B", "U+022D", "U+022F", "U+0231",
    "U+0233", "U+2C65", "U+023C", "U+019A", "U+2C66", "U+0242", "U+0180", "U+0289", "U+028C",
    "U+0247", "U+0249", "U+024B", "U+024D", "U+024F", "U+0371", "U+0373", "U+0377", "U+03F3",
    "U+03AC", "U+03AD", "U+03AE", "U+03AF", "U+03CC", "U+03CD", "U+03CE", "U+03B1", "U+03B2",
    "U+03B3", "U+03B4", "U+03B5", "U+03B6", "U+03B7", "U+03B8", "U+03B9", "U+03BA", "U+03BB",
    "U+03BC", "U+03BD", "U+03BE", "U+03BF", "U+03C0", "U+03C1", "U+03C3", "U+03C4", "U+03C5",
    "U+03C6", "U+03C7", "U+03C8", "U+03C9", "U+03CA", "U+03CB", "U+03D7", "U+03D9", "U+03DB",
    "U+03DD", "U+03DF", "U+03E1", "U+03E3", "U+03E5", "U+03E7", "U+03E9", "U+03EB", "U+03ED",
    "U+03EF", "U+03B8", "U+03F8", "U+03F2", "U+03FB", "U+037B", "U+037C", "U+037D", "U+0450",
    "U+0451", "U+0452", "U+0453", "U+0454", "U+0455", "U+0456", "U+0457", "U+0458", "U+0459",
    "U+045A", "U+045B", "U+045C", "U+045D", "U+045E", "U+045F", "U+0430", "U+0431", "U+0432",
    "U+0433", "U+0434", "U+0435", "U+0436", "U+0437", "U+0438", "U+0439", "U+043A", "U+043B",
    "U+043C", "U+043D", "U+043E", "U+043F", "U+0440", "U+0441", "U+0442", "U+0443", "U+0444",
    "U+0445", "U+0446", "U+0447", "U+0448", "U+0449", "U+044A", "U+044B", "U+044C", "U+044D",
    "U+044E", "U+044F", "U+0461", "U+0463", "U+0465", "U+0467", "U+0469", "U+046B", "U+046D",
    "U+046F", "U+0471", "U+0473", "U+0475", "U+0477", "U+0479", "U+047B", "U+047D", "U+047F",
    "U+0481", "U+048B", "U+048D", "U+048F", "U+0491", "U+0493", "U+0495", "U+0497", "U+0499",
    "U+049B", "U+049D", "U+049F", "U+04A1", "U+04A3", "U+04A5", "U+04A7", "U+04A9", "U+04AB",
    "U+04AD", "U+04AF", "U+04B1", "U+04B3", "U+04B5", "U+04B7", "U+04B9", "U+04BB", "U+04BD",
    "U+04BF", "U+04CF", "U+04C2", "U+04C4", "U+04C6", "U+04C8", "U+04CA", "U+04CC", "U+04CE",
    "U+04D1", "U+04D3", "U+04D5", "U+04D7", "U+04D9", "U+04DB", "U+04DD", "U+04DF", "U+04E1",
    "U+04E3", "U+04E5", "U+04E7", "U+04E9", "U+04EB", "U+04ED", "U+04EF", "U+04F1", "U+04F3",
    "U+04F5", "U+04F7", "U+04F9", "U+04FB", "U+04FD", "U+04FF", "U+0501", "U+0503", "U+0505",
    "U+0507", "U+0509", "U+050B", "U+050D", "U+050F", "U+0511", "U+0513", "U+0515", "U+0517",
    "U+0519", "U+051B", "U+051D", "U+051F", "U+0521", "U+0523", "U+0525", "U+0527", "U+0529",
    "U+052B", "U+052D", "U+052F", "U+0561", "U+0562", "U+0563", "U+0564", "U+0565", "U+0566",
    "U+0567", "U+0568", "U+0569", "U+056A", "U+056B", "U+056C", "U+056D", "U+056E", "U+056F",
    "U+0570", "U+0571", "U+0572", "U+0573", "U+0574", "U+0575", "U+0576", "U+0577", "U+0578",
    "U+0579", "U+057A", "U+057B", "U+057C", "U+057D", "U+057E", "U+057F", "U+0580", "U+0581",
    "U+0582", "U+0583", "U+0584", "U+0585", "U+0586", "U+2D00", "U+2D01", "U+2D02", "U+2D03",
    "U+2D04", "U+2D05", "U+2D06", "U+2D07", "U+2D08", "U+2D09", "U+2D0A", "U+2D0B", "U+2D0C",
    "U+2D0D", "U+2D0E", "U+2D0F", "U+2D10", "U+2D11", "U+2D12", "U+2D13", "U+2D14", "U+2D15",
    "U+2D16", "U+2D17", "U+2D18", "U+2D19", "U+2D1A", "U+2D1B", "U+2D1C", "U+2D1D", "U+2D1E",
    "U+2D1F", "U+2D20", "U+2D21", "U+2D22", "U+2D23", "U+2D24", "U+2D25", "U+2D27", "U+2D2D",
    "U+AB70", "U+AB71", "U+AB72", "U+AB73", "U+AB74", "U+AB75", "U+AB76", "U+AB77", "U+AB78",
    "U+AB79", "U+AB7A", "U+AB7B", "U+AB7C", "U+AB7D", "U+AB7E", "U+AB7F", "U+AB80", "U+AB81",
    "U+AB82", "U+AB83", "U+AB84", "U+AB85", "U+AB86", "U+AB87", "U+AB88", "U+AB89", "U+AB8A",
    "U+AB8B", "U+AB8C", "U+AB8D", "U+AB8E", "U+AB8F", "U+AB90", "U+AB91", "U+AB92", "U+AB93",
    "U+AB94", "U+AB95", "U+AB96", "U+AB97", "U+AB98", "U+AB99", "U+AB9A", "U+AB9B", "U+AB9C",
    "U+AB9D", "U+AB9E", "U+AB9F", "U+ABA0", "U+ABA1", "U+ABA2", "U+ABA3", "U+ABA4", "U+ABA5",
    "U+ABA6", "U+ABA7", "U+ABA8", "U+ABA9", "U+ABAA", "U+ABAB", "U+ABAC", "U+ABAD", "U+ABAE",
    "U+ABAF", "U+ABB0", "U+ABB1", "U+ABB2", "U+ABB3", "U+ABB4", "U+ABB5", "U+ABB6", "U+ABB7",
    "U+ABB8", "U+ABB9", "U+ABBA", "U+ABBB", "U+ABBC", "U+ABBD", "U+ABBE", "U+ABBF", "U+13F8",
    "U+13F9", "U+13FA", "U+13FB", "U+13FC", "U+13FD", "U+1C8A", "U+10D0", "U+10D1", "U+10D2",
    "U+10D3", "U+10D4", "U+10D5", "U+10D6", "U+10D7", "U+10D8", "U+10D9", "U+10DA", "U+10DB",
    "U+10DC", "U+10DD", "U+10DE", "U+10DF", "U+10E0", "U+10E1", "U+10E2", "U+10E3", "U+10E4",
    "U+10E5", "U+10E6", "U+10E7", "U+10E8", "U+10E9", "U+10EA", "U+10EB", "U+10EC", "U+10ED",
    "U+10EE", "U+10EF", "U+10F0", "U+10F1", "U+10F2", "U+10F3", "U+10F4", "U+10F5", "U+10F6",
    "U+10F7", "U+10F8", "U+10F9", "U+10FA", "U+10FD", "U+10FE", "U+10FF", "U+1E01", "U+1E03",
    "U+1E05", "U+1E07", "U+1E09", "U+1E0B", "U+1E0D", "U+1E0F", "U+1E11", "U+1E13", "U+1E15",
    "U+1E17", "U+1E19", "U+1E1B", "U+1E1D", "U+1E1F", "U+1E21", "U+1E23", "U+1E25", "U+1E27",
    "U+1E29", "U+1E2B", "U+1E2D", "U+1E2F", "U+1E31", "U+1E33", "U+1E35", "U+1E37", "U+1E39",
    "U+1E3B", "U+1E3D", "U+1E3F", "U+1E41", "U+1E43", "U+1E45", "U+1E47", "U+1E49", "U+1E4B",
    "U+1E4D", "U+1E4F", "U+1E51", "U+1E53", "U+1E55", "U+1E57", "U+1E59", "U+1E5B", "U+1E5D",
    "U+1E5F", "U+1E61", "U+1E63", "U+1E65", "U+1E67", "U+1E69", "U+1E6B", "U+1E6D", "U+1E6F",
    "U+1E71", "U+1E73", "U+1E75", "U+1E77", "U+1E79", "U+1E7B", "U+1E7D", "U+1E7F", "U+1E81",
    "U+1E83", "U+1E85", "U+1E87", "U+1E89", "U+1E8B", "U+1E8D", "U+1E8F", "U+1E91", "U+1E93",
    "U+1E95", "U+00DF", "U+1EA1", "U+1EA3", "U+1EA5", "U+1EA7", "U+1EA9", "U+1EAB", "U+1EAD",
    "U+1EAF", "U+1EB1", "U+1EB3", "U+1EB5", "U+1EB7", "U+1EB9", "U+1EBB", "U+1EBD", "U+1EBF",
    "U+1EC1", "U+1EC3", "U+1EC5", "U+1EC7", "U+1EC9", "U+1ECB", "U+1ECD", "U+1ECF", "U+1ED1",
    "U+1ED3", "U+1ED5", "U+1ED7", "U+1ED9", "U+1EDB", "U+1EDD", "U+1EDF", "U+1EE1", "U+1EE3",
    "U+1EE5", "U+1EE7", "U+1EE9", "U+1EEB", "U+1EED", "U+1EEF", "U+1EF1", "U+1EF3", "U+1EF5",
    "U+1EF7", "U+1EF9", "U+1EFB", "U+1EFD", "U+1EFF", "U+1F00", "U+1F01", "U+1F02", "U+1F03",
    "U+1F04", "U+1F05", "U+1F06", "U+1F07", "U+1F10", "U+1F11", "U+1F12", "U+1F13", "U+1F14",
    "U+1F15", "U+1F20", "U+1F21", "U+1F22", "U+1F23", "U+1F24", "U+1F25", "U+1F26", "U+1F27",
    "U+1F30", "U+1F31", "U+1F32", "U+1F33", "U+1F34", "U+1F35", "U+1F36", "U+1F37", "U+1F40",
    "U+1F41", "U+1F42", "U+1F43", "U+1F44", "U+1F45", "U+1F51", "U+1F53", "U+1F55", "U+1F57",
    "U+1F60", "U+1F61", "U+1F62", "U+1F63", "U+1F64", "U+1F65", "U+1F66", "U+1F67", "U+1F80",
    "U+1F81", "U+1F82", "U+1F83", "U+1F84", "U+1F85", "U+1F86", "U+1F87", "U+1F90", "U+1F91",
    "U+1F92", "U+1F93", "U+1F94", "U+1F95", "U+1F96", "U+1F97", "U+1FA0", "U+1FA1", "U+1FA2",
    "U+1FA3", "U+1FA4", "U+1FA5", "U+1FA6", "U+1FA7", "U+1FB0", "U+1FB1", "U+1F70", "U+1F71",
    "U+1FB3", "U+1F72", "U+1F73", "U+1F74", "U+1F75", "U+1FC3", "U+1FD0", "U+1FD1", "U+1F76",
    "U+1F77", "U+1FE0", "U+1FE1", "U+1F7A", "U+1F7B", "U+1FE5", "U+1F78", "U+1F79", "U+1F7C",
    "U+1F7D", "U+1FF3", "U+03C9", "k", "U+00E5", "U+214E", "U+2170", "U+2171", "U+2172",
    "U+2173", "U+2174", "U+2175", "U+2176", "U+2177", "U+2178", "U+2179", "U+217A", "U+217B",
    "U+217C", "U+217D", "U+217E", "U+217F", "U+2184", "U+24D0", "U+24D1", "U+24D2", "U+24D3",
    "U+24D4", "U+24D5", "U+24D6", "U+24D7", "U+24D8", "U+24D9", "U+24DA", "U+24DB", "U+24DC",
    "U+24DD", "U+24DE", "U+24DF", "U+24E0", "U+24E1", "U+24E2", "U+24E3", "U+24E4", "U+24E5",
    "U+24E6", "U+24E7", "U+24E8", "U+24E9", "U+2C30", "U+2C31", "U+2C32", "U+2C33", "U+2C34",
    "U+2C35", "U+2C36", "U+2C37", "U+2C38", "U+2C39", "U+2C3A", "U+2C3B", "U+2C3C", "U+2C3D",
    "U+2C3E", "U+2C3F", "U+2C40", "U+2C41", "U+2C42", "U+2C43", "U+2C44", "U+2C45", "U+2C46",
    "U+2C47", "U+2C48", "U+2C49", "U+2C4A", "U+2C4B", "U+2C4C", "U+2C4D", "U+2C4E", "U+2C4F",
    "U+2C50", "U+2C51", "U+2C52", "U+2C53", "U+2C54", "U+2C55", "U+2C56", "U+2C57", "U+2C58",
    "U+2C59", "U+2C5A", "U+2C5B", "U+2C5C", "U+2C5D", "U+2C5E", "U+2C5F", "U+2C61", "U+026B",
    "U+1D7D", "U+027D", "U+2C68", "U+2C6A", "U+2C6C", "U+0251", "U+0271", "U+0250", "U+0252",
    "U+2C73", "U+2C76", "U+023F", "U+0240", "U+2C81", "U+2C83", "U+2C85", "U+2C87", "U+2C89",
    "U+2C8B", "U+2C8D", "U+2C8F", "U+2C91", "U+2C93", "U+2C95", "U+2C97", "U+2C99", "U+2C9B",
    "U+2C9D", "U+2C9F", "U+2CA1", "U+2CA3", "U+2CA5", "U+2CA7", "U+2CA9", "U+2CAB", "U+2CAD",
    "U+2CAF", "U+2CB1", "U+2CB3", "U+2CB5", "U+2CB7", "U+2CB9", "U+2CBB", "U+2CBD", "U+2CBF",
    "U+2CC1", "U+2CC3", "U+2CC5", "U+2CC7", "U+2CC9", "U+2CCB", "U+2CCD", "U+2CCF", "U+2CD1",
    "U+2CD3", "U+2CD5", "U+2CD7", "U+2CD9", "U+2CDB", "U+2CDD", "U+2CDF", "U+2CE1", "U+2CE3",
    "U+2CEC", "U+2CEE", "U+2CF3", "U+A641", "U+A643", "U+A645", "U+A647", "U+A649", "U+A64B",
    "U+A64D", "U+A64F", "U+A651", "U+A653", "U+A655", "U+A657", "U+A659", "U+A65B", "U+A65D",
    "U+A65F", "U+A661", "U+A663", "U+A665", "U+A667", "U+A669", "U+A66B", "U+A66D", "U+A681",
    "U+A683", "U+A685", "U+A687", "U+A689", "U+A68B", "U+A68D", "U+A68F", "U+A691", "U+A693",
    "U+A695", "U+A697", "U+A699", "U+A69B", "U+A723", "U+A725", "U+A727", "U+A729", "U+A72B",
    "U+A72D", "U+A72F", "U+A733", "U+A735", "U+A737", "U+A739", "U+A73B", "U+A73D", "U+A73F",
    "U+A741", "U+A743", "U+A745", "U+A747", "U+A749", "U+A74B", "U+A74D", "U+A74F", "U+A751",
    "U+A753", "U+A755", "U+A757", "U+A759", "U+A75B", "U+A75D", "U+A75F", "U+A761", "U+A763",
    "U+A765", "U+A767", "U+A769", "U+A76B", "U+A76D", "U+A76F", "U+A77A", "U+A77C", "U+1D79",
    "U+A77F", "U+A781", "U+A783", "U+A785", "U+A787", "U+A78C", "U+0265", "U+A791", "U+A793",
    "U+A797", "U+A799", "U+A79B", "U+A79D", "U+A79F", "U+A7A1", "U+A7A3", "U+A7A5", "U+A7A7",
    "U+A7A9", "U+0266", "U+025C", "U+0261", "U+026C", "U+026A", "U+029E", "U+0287", "U+029D",
    "U+AB53", "U+A7B5", "U+A7B7", "U+A7B9", "U+A7BB", "U+A7BD", "U+A7BF", "U+A7C1", "U+A7C3",
    "U+A794", "U+0282", "U+1D8E", "U+A7C8", "U+A7CA", "U+0264", "U+A7CD", "U+A7CF", "U+A7D1",
    "U+A7D3", "U+A7D5", "U+A7D7", "U+A7D9", "U+A7DB", "U+019B", "U+A7F6", "U+FF41", "U+FF42",
    "U+FF43", "U+FF44", "U+FF45", "U+FF46", "U+FF47", "U+FF48", "U+FF49", "U+FF4A", "U+FF4B",
    "U+FF4C", "U+FF4D", "U+FF4E", "U+FF4F", "U+FF50", "U+FF51", "U+FF52", "U+FF53", "U+FF54",
    "U+FF55", "U+FF56", "U+FF57", "U+FF58", "U+FF59", "U+FF5A" >>

\* the characters that .normalize("NFD").replace(/[\u0300-\u036f]/g, "") changes: the
\* characters with a canonical decomposition (the Hangul syllables apart, which are
\* decomposed by a rule: see hangulDecomposition) and the marks U+0300 to U+036F, of
\* the Basic Multilingual Plane
AccentedLetters ==
  <<
    "U+00C0", "U+00C1", "U+00C2", "U+00C3", "U+00C4", "U+00C5", "U+00C7", "U+00C8", "U+00C9",
    "U+00CA", "U+00CB", "U+00CC", "U+00CD", "U+00CE", "U+00CF", "U+00D1", "U+00D2", "U+00D3",
    "U+00D4", "U+00D5", "U+00D6", "U+00D9", "U+00DA", "U+00DB", "U+00DC", "U+00DD", "U+00E0",
    "U+00E1", "U+00E2", "U+00E3", "U+00E4", "U+00E5", "U+00E7", "U+00E8", "U+00E9", "U+00EA",
    "U+00EB", "U+00EC", "U+00ED", "U+00EE", "U+00EF", "U+00F1", "U+00F2", "U+00F3", "U+00F4",
    "U+00F5", "U+00F6", "U+00F9", "U+00FA", "U+00FB", "U+00FC", "U+00FD", "U+00FF", "U+0100",
    "U+0101", "U+0102", "U+0103", "U+0104", "U+0105", "U+0106", "U+0107", "U+0108", "U+0109",
    "U+010A", "U+010B", "U+010C", "U+010D", "U+010E", "U+010F", "U+0112", "U+0113", "U+0114",
    "U+0115", "U+0116", "U+0117", "U+0118", "U+0119", "U+011A", "U+011B", "U+011C", "U+011D",
    "U+011E", "U+011F", "U+0120", "U+0121", "U+0122", "U+0123", "U+0124", "U+0125", "U+0128",
    "U+0129", "U+012A", "U+012B", "U+012C", "U+012D", "U+012E", "U+012F", "U+0130", "U+0134",
    "U+0135", "U+0136", "U+0137", "U+0139", "U+013A", "U+013B", "U+013C", "U+013D", "U+013E",
    "U+0143", "U+0144", "U+0145", "U+0146", "U+0147", "U+0148", "U+014C", "U+014D", "U+014E",
    "U+014F", "U+0150", "U+0151", "U+0154", "U+0155", "U+0156", "U+0157", "U+0158", "U+0159",
    "U+015A", "U+015B", "U+015C", "U+015D", "U+015E", "U+015F", "U+0160", "U+0161", "U+0162",
    "U+0163", "U+0164", "U+0165", "U+0168", "U+0169", "U+016A", "U+016B", "U+016C", "U+016D",
    "U+016E", "U+016F", "U+0170", "U+0171", "U+0172", "U+0173", "U+0174", "U+0175", "U+0176",
    "U+0177", "U+0178", "U+0179", "U+017A", "U+017B", "U+017C", "U+017D", "U+017E", "U+01A0",
    "U+01A1", "U+01AF", "U+01B0", "U+01CD", "U+01CE", "U+01CF", "U+01D0", "U+01D1", "U+01D2",
    "U+01D3", "U+01D4", "U+01D5", "U+01D6", "U+01D7", "U+01D8", "U+01D9", "U+01DA", "U+01DB",
    "U+01DC", "U+01DE", "U+01DF", "U+01E0", "U+01E1", "U+01E2", "U+01E3", "U+01E6", "U+01E7",
    "U+01E8", "U+01E9", "U+01EA", "U+01EB", "U+01EC", "U+01ED", "U+01EE", "U+01EF", "U+01F0",
    "U+01F4", "U+01F5", "U+01F8", "U+01F9", "U+01FA", "U+01FB", "U+01FC", "U+01FD", "U+01FE",
    "U+01FF", "U+0200", "U+0201", "U+0202", "U+0203", "U+0204", "U+0205", "U+0206", "U+0207",
    "U+0208", "U+0209", "U+020A", "U+020B", "U+020C", "U+020D", "U+020E", "U+020F", "U+0210",
    "U+0211", "U+0212", "U+0213", "U+0214", "U+0215", "U+0216", "U+0217", "U+0218", "U+0219",
    "U+021A", "U+021B", "U+021E", "U+021F", "U+0226", "U+0227", "U+0228", "U+0229", "U+022A",
    "U+022B", "U+022C", "U+022D", "U+022E", "U+022F", "U+0230", "U+0231", "U+0232", "U+0233",
    "U+0300", "U+0301", "U+0302", "U+0303", "U+0304", "U+0305", "U+0306", "U+0307", "U+0308",
    "U+0309", "U+030A", "U+030B", "U+030C", "U+030D", "U+030E", "U+030F", "U+0310", "U+0311",
    "U+0312", "U+0313", "U+0314", "U+0315", "U+0316", "U+0317", "U+0318", "U+0319", "U+031A",
    "U+031B", "U+031C", "U+031D", "U+031E", "U+031F", "U+0320", "U+0321", "U+0322", "U+0323",
    "U+0324", "U+0325", "U+0326", "U+0327", "U+0328", "U+0329", "U+032A", "U+032B", "U+032C",
    "U+032D", "U+032E", "U+032F", "U+0330", "U+0331", "U+0332", "U+0333", "U+0334", "U+0335",
    "U+0336", "U+0337", "U+0338", "U+0339", "U+033A", "U+033B", "U+033C", "U+033D", "U+033E",
    "U+033F", "U+0340", "U+0341", "U+0342", "U+0343", "U+0344", "U+0345", "U+0346", "U+0347",
    "U+0348", "U+0349", "U+034A", "U+034B", "U+034C", "U+034D", "U+034E", "U+034F", "U+0350",
    "U+0351", "U+0352", "U+0353", "U+0354", "U+0355", "U+0356", "U+0357", "U+0358", "U+0359",
    "U+035A", "U+035B", "U+035C", "U+035D", "U+035E", "U+035F", "U+0360", "U+0361", "U+0362",
    "U+0363", "U+0364", "U+0365", "U+0366", "U+0367", "U+0368", "U+0369", "U+036A", "U+036B",
    "U+036C", "U+036D", "U+036E", "U+036F", "U+0374", "U+037E", "U+0385", "U+0386", "U+0387",
    "U+0388", "U+0389", "U+038A", "U+038C", "U+038E", "U+038F", "U+0390", "U+03AA", "U+03AB",
    "U+03AC", "U+03AD", "U+03AE", "U+03AF", "U+03B0", "U+03CA", "U+03CB", "U+03CC", "U+03CD",
    "U+03CE", "U+03D3", "U+03D4", "U+0400", "U+0401", "U+0403", "U+0407", "U+040C", "U+040D",
    "U+040E", "U+0419", "U+0439", "U+0450", "U+0451", "U+0453", "U+0457", "U+045C", "U+045D",
    "U+045E", "U+0476", "U+0477", "U+04C1", "U+04C2", "U+04D0", "U+04D1", "U+04D2", "U+04D3",
    "U+04D6", "U+04D7", "U+04DA", "U+04DB", "U+04DC", "U+04DD", "U+04DE", "U+04DF", "U+04E2",
    "U+04E3", "U+04E4", "U+04E5", "U+04E6", "U+04E7", "U+04EA", "U+04EB", "U+04EC", "U+04ED",
    "U+04EE", "U+04EF", "U+04F0", "U+04F1", "U+04F2", "U+04F3", "U+04F4", "U+04F5", "U+04F8",
    "U+04F9", "U+0622", "U+0623", "U+0624", "U+0625", "U+0626", "U+06C0", "U+06C2", "U+06D3",
    "U+0929", "U+0931", "U+0934", "U+0958", "U+0959", "U+095A", "U+095B", "U+095C", "U+095D",
    "U+095E", "U+095F", "U+09CB", "U+09CC", "U+09DC", "U+09DD", "U+09DF", "U+0A33", "U+0A36",
    "U+0A59", "U+0A5A", "U+0A5B", "U+0A5E", "U+0B48", "U+0B4B", "U+0B4C", "U+0B5C", "U+0B5D",
    "U+0B94", "U+0BCA", "U+0BCB", "U+0BCC", "U+0C48", "U+0CC0", "U+0CC7", "U+0CC8", "U+0CCA",
    "U+0CCB", "U+0D4A", "U+0D4B", "U+0D4C", "U+0DDA", "U+0DDC", "U+0DDD", "U+0DDE", "U+0F43",
    "U+0F4D", "U+0F52", "U+0F57", "U+0F5C", "U+0F69", "U+0F73", "U+0F75", "U+0F76", "U+0F78",
    "U+0F81", "U+0F93", "U+0F9D", "U+0FA2", "U+0FA7", "U+0FAC", "U+0FB9", "U+1026", "U+1B06",
    "U+1B08", "U+1B0A", "U+1B0C", "U+1B0E", "U+1B12", "U+1B3B", "U+1B3D", "U+1B40", "U+1B41",
    "U+1B43", "U+1E00", "U+1E01", "U+1E02", "U+1E03", "U+1E04", "U+1E05", "U+1E06", "U+1E07",
    "U+1E08", "U+1E09", "U+1E0A", "U+1E0B", "U+1E0C", "U+1E0D", "U+1E0E", "U+1E0F", "U+1E10",
    "U+1E11", "U+1E12", "U+1E13", "U+1E14", "U+1E15", "U+1E16", "U+1E17", "U+1E18", "U+1E19",
    "U+1E1A", "U+1E1B", "U+1E1C", "U+1E1D", "U+1E1E", "U+1E1F", "U+1E20", "U+1E21", "U+1E22",
    "U+1E23", "U+1E24", "U+1E25", "U+1E26", "U+1E27", "U+1E28", "U+1E29", "U+1E2A", "U+1E2B",
    "U+1E2C", "U+1E2D", "U+1E2E", "U+1E2F", "U+1E30", "U+1E31", "U+1E32", "U+1E33", "U+1E34",
    "U+1E35", "U+1E36", "U+1E37", "U+1E38", "U+1E39", "U+1E3A", "U+1E3B", "U+1E3C", "U+1E3D",
    "U+1E3E", "U+1E3F", "U+1E40", "U+1E41", "U+1E42", "U+1E43", "U+1E44", "U+1E45", "U+1E46",
    "U+1E47", "U+1E48", "U+1E49", "U+1E4A", "U+1E4B", "U+1E4C", "U+1E4D", "U+1E4E", "U+1E4F",
    "U+1E50", "U+1E51", "U+1E52", "U+1E53", "U+1E54", "U+1E55", "U+1E56", "U+1E57", "U+1E58",
    "U+1E59", "U+1E5A", "U+1E5B", "U+1E5C", "U+1E5D", "U+1E5E", "U+1E5F", "U+1E60", "U+1E61",
    "U+1E62", "U+1E63", "U+1E64", "U+1E65", "U+1E66", "U+1E67", "U+1E68", "U+1E69", "U+1E6A",
    "U+1E6B", "U+1E6C", "U+1E6D", "U+1E6E", "U+1E6F", "U+1E70", "U+1E71", "U+1E72", "U+1E73",
    "U+1E74", "U+1E75", "U+1E76", "U+1E77", "U+1E78", "U+1E79", "U+1E7A", "U+1E7B", "U+1E7C",
    "U+1E7D", "U+1E7E", "U+1E7F", "U+1E80", "U+1E81", "U+1E82", "U+1E83", "U+1E84", "U+1E85",
    "U+1E86", "U+1E87", "U+1E88", "U+1E89", "U+1E8A", "U+1E8B", "U+1E8C", "U+1E8D", "U+1E8E",
    "U+1E8F", "U+1E90", "U+1E91", "U+1E92", "U+1E93", "U+1E94", "U+1E95", "U+1E96", "U+1E97",
    "U+1E98", "U+1E99", "U+1E9B", "U+1EA0", "U+1EA1", "U+1EA2", "U+1EA3", "U+1EA4", "U+1EA5",
    "U+1EA6", "U+1EA7", "U+1EA8", "U+1EA9", "U+1EAA", "U+1EAB", "U+1EAC", "U+1EAD", "U+1EAE",
    "U+1EAF", "U+1EB0", "U+1EB1", "U+1EB2", "U+1EB3", "U+1EB4", "U+1EB5", "U+1EB6", "U+1EB7",
    "U+1EB8", "U+1EB9", "U+1EBA", "U+1EBB", "U+1EBC", "U+1EBD", "U+1EBE", "U+1EBF", "U+1EC0",
    "U+1EC1", "U+1EC2", "U+1EC3", "U+1EC4", "U+1EC5", "U+1EC6", "U+1EC7", "U+1EC8", "U+1EC9",
    "U+1ECA", "U+1ECB", "U+1ECC", "U+1ECD", "U+1ECE", "U+1ECF", "U+1ED0", "U+1ED1", "U+1ED2",
    "U+1ED3", "U+1ED4", "U+1ED5", "U+1ED6", "U+1ED7", "U+1ED8", "U+1ED9", "U+1EDA", "U+1EDB",
    "U+1EDC", "U+1EDD", "U+1EDE", "U+1EDF", "U+1EE0", "U+1EE1", "U+1EE2", "U+1EE3", "U+1EE4",
    "U+1EE5", "U+1EE6", "U+1EE7", "U+1EE8", "U+1EE9", "U+1EEA", "U+1EEB", "U+1EEC", "U+1EED",
    "U+1EEE", "U+1EEF", "U+1EF0", "U+1EF1", "U+1EF2", "U+1EF3", "U+1EF4", "U+1EF5", "U+1EF6",
    "U+1EF7", "U+1EF8", "U+1EF9", "U+1F00", "U+1F01", "U+1F02", "U+1F03", "U+1F04", "U+1F05",
    "U+1F06", "U+1F07", "U+1F08", "U+1F09", "U+1F0A", "U+1F0B", "U+1F0C", "U+1F0D", "U+1F0E",
    "U+1F0F", "U+1F10", "U+1F11", "U+1F12", "U+1F13", "U+1F14", "U+1F15", "U+1F18", "U+1F19",
    "U+1F1A", "U+1F1B", "U+1F1C", "U+1F1D", "U+1F20", "U+1F21", "U+1F22", "U+1F23", "U+1F24",
    "U+1F25", "U+1F26", "U+1F27", "U+1F28", "U+1F29", "U+1F2A", "U+1F2B", "U+1F2C", "U+1F2D",
    "U+1F2E", "U+1F2F", "U+1F30", "U+1F31", "U+1F32", "U+1F33", "U+1F34", "U+1F35", "U+1F36",
    "U+1F37", "U+1F38", "U+1F39", "U+1F3A", "U+1F3B", "U+1F3C", "U+1F3D", "U+1F3E", "U+1F3F",
    "U+1F40", "U+1F41", "U+1F42", "U+1F43", "U+1F44", "U+1F45", "U+1F48", "U+1F49", "U+1F4A",
    "U+1F4B", "U+1F4C", "U+1F4D", "U+1F50", "U+1F51", "U+1F52", "U+1F53", "U+1F54", "U+1F55",
    "U+1F56", "U+1F57", "U+1F59", "U+1F5B", "U+1F5D", "U+1F5F", "U+1F60", "U+1F61", "U+1F62",
    "U+1F63", "U+1F64", "U+1F65", "U+1F66", "U+1F67", "U+1F68", "U+1F69", "U+1F6A", "U+1F6B",
    "U+1F6C", "U+1F6D", "U+1F6E", "U+1F6F", "U+1F70", "U+1F71", "U+1F72", "U+1F73", "U+1F74",
    "U+1F75", "U+1F76", "U+1F77", "U+1F78", "U+1F79", "U+1F7A", "U+1F7B", "U+1F7C", "U+1F7D",
    "U+1F80", "U+1F81", "U+1F82", "U+1F83", "U+1F84", "U+1F85", "U+1F86", "U+1F87", "U+1F88",
    "U+1F89", "U+1F8A", "U+1F8B", "U+1F8C", "U+1F8D", "U+1F8E", "U+1F8F", "U+1F90", "U+1F91",
    "U+1F92", "U+1F93", "U+1F94", "U+1F95", "U+1F96", "U+1F97", "U+1F98", "U+1F99", "U+1F9A",
    "U+1F9B", "U+1F9C", "U+1F9D", "U+1F9E", "U+1F9F", "U+1FA0", "U+1FA1", "U+1FA2", "U+1FA3",
    "U+1FA4", "U+1FA5", "U+1FA6", "U+1FA7", "U+1FA8", "U+1FA9", "U+1FAA", "U+1FAB", "U+1FAC",
    "U+1FAD", "U+1FAE", "U+1FAF", "U+1FB0", "U+1FB1", "U+1FB2", "U+1FB3", "U+1FB4", "U+1FB6",
    "U+1FB7", "U+1FB8", "U+1FB9", "U+1FBA", "U+1FBB", "U+1FBC", "U+1FBE", "U+1FC1", "U+1FC2",
    "U+1FC3", "U+1FC4", "U+1FC6", "U+1FC7", "U+1FC8", "U+1FC9", "U+1FCA", "U+1FCB", "U+1FCC",
    "U+1FCD", "U+1FCE", "U+1FCF", "U+1FD0", "U+1FD1", "U+1FD2", "U+1FD3", "U+1FD6", "U+1FD7",
    "U+1FD8", "U+1FD9", "U+1FDA", "U+1FDB", "U+1FDD", "U+1FDE", "U+1FDF", "U+1FE0", "U+1FE1",
    "U+1FE2", "U+1FE3", "U+1FE4", "U+1FE5", "U+1FE6", "U+1FE7", "U+1FE8", "U+1FE9", "U+1FEA",
    "U+1FEB", "U+1FEC", "U+1FED", "U+1FEE", "U+1FEF", "U+1FF2", "U+1FF3", "U+1FF4", "U+1FF6",
    "U+1FF7", "U+1FF8", "U+1FF9", "U+1FFA", "U+1FFB", "U+1FFC", "U+1FFD", "U+2000", "U+2001",
    "U+2126", "U+212A", "U+212B", "U+219A", "U+219B", "U+21AE", "U+21CD", "U+21CE", "U+21CF",
    "U+2204", "U+2209", "U+220C", "U+2224", "U+2226", "U+2241", "U+2244", "U+2247", "U+2249",
    "U+2260", "U+2262", "U+226D", "U+226E", "U+226F", "U+2270", "U+2271", "U+2274", "U+2275",
    "U+2278", "U+2279", "U+2280", "U+2281", "U+2284", "U+2285", "U+2288", "U+2289", "U+22AC",
    "U+22AD", "U+22AE", "U+22AF", "U+22E0", "U+22E1", "U+22E2", "U+22E3", "U+22EA", "U+22EB",
    "U+22EC", "U+22ED", "U+2329", "U+232A", "U+2ADC", "U+304C", "U+304E", "U+3050", "U+3052",
    "U+3054", "U+3056", "U+3058", "U+305A", "U+305C", "U+305E", "U+3060", "U+3062", "U+3065",
    "U+3067", "U+3069", "U+3070", "U+3071", "U+3073", "U+3074", "U+3076", "U+3077", "U+3079",
    "U+307A", "U+307C", "U+307D", "U+3094", "U+309E", "U+30AC", "U+30AE", "U+30B0", "U+30B2",
    "U+30B4", "U+30B6", "U+30B8", "U+30BA", "U+30BC", "U+30BE", "U+30C0", "U+30C2", "U+30C5",
    "U+30C7", "U+30C9", "U+30D0", "U+30D1", "U+30D3", "U+30D4", "U+30D6", "U+30D7", "U+30D9",
    "U+30DA", "U+30DC", "U+30DD", "U+30F4", "U+30F7", "U+30F8", "U+30F9", "U+30FA", "U+30FE",
    "U+F900", "U+F901", "U+F902", "U+F903", "U+F904", "U+F905", "U+F906", "U+F907", "U+F908",
    "U+F909", "U+F90A", "U+F90B", "U+F90C", "U+F90D", "U+F90E", "U+F90F", "U+F910", "U+F911",
    "U+F912", "U+F913", "U+F914", "U+F915", "U+F916", "U+F917", "U+F918", "U+F919", "U+F91A",
    "U+F91B", "U+F91C", "U+F91D", "U+F91E", "U+F91F", "U+F920", "U+F921", "U+F922", "U+F923",
    "U+F924", "U+F925", "U+F926", "U+F927", "U+F928", "U+F929", "U+F92A", "U+F92B", "U+F92C",
    "U+F92D", "U+F92E", "U+F92F", "U+F930", "U+F931", "U+F932", "U+F933", "U+F934", "U+F935",
    "U+F936", "U+F937", "U+F938", "U+F939", "U+F93A", "U+F93B", "U+F93C", "U+F93D", "U+F93E",
    "U+F93F", "U+F940", "U+F941", "U+F942", "U+F943", "U+F944", "U+F945", "U+F946", "U+F947",
    "U+F948", "U+F949", "U+F94A", "U+F94B", "U+F94C", "U+F94D", "U+F94E", "U+F94F", "U+F950",
    "U+F951", "U+F952", "U+F953", "U+F954", "U+F955", "U+F956", "U+F957", "U+F958", "U+F959",
    "U+F95A", "U+F95B", "U+F95C", "U+F95D", "U+F95E", "U+F95F", "U+F960", "U+F961", "U+F962",
    "U+F963", "U+F964", "U+F965", "U+F966", "U+F967", "U+F968", "U+F969", "U+F96A", "U+F96B",
    "U+F96C", "U+F96D", "U+F96E", "U+F96F", "U+F970", "U+F971", "U+F972", "U+F973", "U+F974",
    "U+F975", "U+F976", "U+F977", "U+F978", "U+F979", "U+F97A", "U+F97B", "U+F97C", "U+F97D",
    "U+F97E", "U+F97F", "U+F980", "U+F981", "U+F982", "U+F983", "U+F984", "U+F985", "U+F986",
    "U+F987", "U+F988", "U+F989", "U+F98A", "U+F98B", "U+F98C", "U+F98D", "U+F98E", "U+F98F",
    "U+F990", "U+F991", "U+F992", "U+F993", "U+F994", "U+F995", "U+F996", "U+F997", "U+F998",
    "U+F999", "U+F99A", "U+F99B", "U+F99C", "U+F99D", "U+F99E", "U+F99F", "U+F9A0", "U+F9A1",
    "U+F9A2", "U+F9A3", "U+F9A4", "U+F9A5", "U+F9A6", "U+F9A7", "U+F9A8", "U+F9A9", "U+F9AA",
    "U+F9AB", "U+F9AC", "U+F9AD", "U+F9AE", "U+F9AF", "U+F9B0", "U+F9B1", "U+F9B2", "U+F9B3",
    "U+F9B4", "U+F9B5", "U+F9B6", "U+F9B7", "U+F9B8", "U+F9B9", "U+F9BA", "U+F9BB", "U+F9BC",
    "U+F9BD", "U+F9BE", "U+F9BF", "U+F9C0", "U+F9C1", "U+F9C2", "U+F9C3", "U+F9C4", "U+F9C5",
    "U+F9C6", "U+F9C7", "U+F9C8", "U+F9C9", "U+F9CA", "U+F9CB", "U+F9CC", "U+F9CD", "U+F9CE",
    "U+F9CF", "U+F9D0", "U+F9D1", "U+F9D2", "U+F9D3", "U+F9D4", "U+F9D5", "U+F9D6", "U+F9D7",
    "U+F9D8", "U+F9D9", "U+F9DA", "U+F9DB", "U+F9DC", "U+F9DD", "U+F9DE", "U+F9DF", "U+F9E0",
    "U+F9E1", "U+F9E2", "U+F9E3", "U+F9E4", "U+F9E5", "U+F9E6", "U+F9E7", "U+F9E8", "U+F9E9",
    "U+F9EA", "U+F9EB", "U+F9EC", "U+F9ED", "U+F9EE", "U+F9EF", "U+F9F0", "U+F9F1", "U+F9F2",
    "U+F9F3", "U+F9F4", "U+F9F5", "U+F9F6", "U+F9F7", "U+F9F8", "U+F9F9", "U+F9FA", "U+F9FB",
    "U+F9FC", "U+F9FD", "U+F9FE", "U+F9FF", "U+FA00", "U+FA01", "U+FA02", "U+FA03", "U+FA04",
    "U+FA05", "U+FA06", "U+FA07", "U+FA08", "U+FA09", "U+FA0A", "U+FA0B", "U+FA0C", "U+FA0D",
    "U+FA10", "U+FA12", "U+FA15", "U+FA16", "U+FA17", "U+FA18", "U+FA19", "U+FA1A", "U+FA1B",
    "U+FA1C", "U+FA1D", "U+FA1E", "U+FA20", "U+FA22", "U+FA25", "U+FA26", "U+FA2A", "U+FA2B",
    "U+FA2C", "U+FA2D", "U+FA2E", "U+FA2F", "U+FA30", "U+FA31", "U+FA32", "U+FA33", "U+FA34",
    "U+FA35", "U+FA36", "U+FA37", "U+FA38", "U+FA39", "U+FA3A", "U+FA3B", "U+FA3C", "U+FA3D",
    "U+FA3E", "U+FA3F", "U+FA40", "U+FA41", "U+FA42", "U+FA43", "U+FA44", "U+FA45", "U+FA46",
    "U+FA47", "U+FA48", "U+FA49", "U+FA4A", "U+FA4B", "U+FA4C", "U+FA4D", "U+FA4E", "U+FA4F",
    "U+FA50", "U+FA51", "U+FA52", "U+FA53", "U+FA54", "U+FA55", "U+FA56", "U+FA57", "U+FA58",
    "U+FA59", "U+FA5A", "U+FA5B", "U+FA5C", "U+FA5D", "U+FA5E", "U+FA5F", "U+FA60", "U+FA61",
    "U+FA62", "U+FA63", "U+FA64", "U+FA65", "U+FA66", "U+FA67", "U+FA68", "U+FA69", "U+FA6A",
    "U+FA6B", "U+FA6C", "U+FA6D", "U+FA70", "U+FA71", "U+FA72", "U+FA73", "U+FA74", "U+FA75",
    "U+FA76", "U+FA77", "U+FA78", "U+FA79", "U+FA7A", "U+FA7B", "U+FA7C", "U+FA7D", "U+FA7E",
    "U+FA7F", "U+FA80", "U+FA81", "U+FA82", "U+FA83", "U+FA84", "U+FA85", "U+FA86", "U+FA87",
    "U+FA88", "U+FA89", "U+FA8A", "U+FA8B", "U+FA8C", "U+FA8D", "U+FA8E", "U+FA8F", "U+FA90",
    "U+FA91", "U+FA92", "U+FA93", "U+FA94", "U+FA95", "U+FA96", "U+FA97", "U+FA98", "U+FA99",
    "U+FA9A", "U+FA9B", "U+FA9C", "U+FA9D", "U+FA9E", "U+FA9F", "U+FAA0", "U+FAA1", "U+FAA2",
    "U+FAA3", "U+FAA4", "U+FAA5", "U+FAA6", "U+FAA7", "U+FAA8", "U+FAA9", "U+FAAA", "U+FAAB",
    "U+FAAC", "U+FAAD", "U+FAAE", "U+FAAF", "U+FAB0", "U+FAB1", "U+FAB2", "U+FAB3", "U+FAB4",
    "U+FAB5", "U+FAB6", "U+FAB7", "U+FAB8", "U+FAB9", "U+FABA", "U+FABB", "U+FABC", "U+FABD",
    "U+FABE", "U+FABF", "U+FAC0", "U+FAC1", "U+FAC2", "U+FAC3", "U+FAC4", "U+FAC5", "U+FAC6",
    "U+FAC7", "U+FAC8", "U+FAC9", "U+FACA", "U+FACB", "U+FACC", "U+FACD", "U+FACE", "U+FACF",
    "U+FAD0", "U+FAD1", "U+FAD2", "U+FAD3", "U+FAD4", "U+FAD5", "U+FAD6", "U+FAD7", "U+FAD8",
    "U+FAD9", "U+FB1D", "U+FB1F", "U+FB2A", "U+FB2B", "U+FB2C", "U+FB2D", "U+FB2E", "U+FB2F",
    "U+FB30", "U+FB31", "U+FB32", "U+FB33", "U+FB34", "U+FB35", "U+FB36", "U+FB38", "U+FB39",
    "U+FB3A", "U+FB3B", "U+FB3C", "U+FB3E", "U+FB40", "U+FB41", "U+FB43", "U+FB44", "U+FB46",
    "U+FB47", "U+FB48", "U+FB49", "U+FB4A", "U+FB4B", "U+FB4C", "U+FB4D", "U+FB4E" >>

\* what is left of each character of AccentedLetters: its canonical decomposition
\* without the marks U+0300 to U+036F
AccentBase ==
  <<
    <<"A">>, <<"A">>, <<"A">>, <<"A">>, <<"A">>, <<"A">>, <<"C">>, <<"E">>, <<"E">>, <<"E">>,
    <<"E">>, <<"I">>, <<"I">>, <<"I">>, <<"I">>, <<"N">>, <<"O">>, <<"O">>, <<"O">>, <<"O">>,
    <<"O">>, <<"U">>, <<"U">>, <<"U">>, <<"U">>, <<"Y">>, <<"a">>, <<"a">>, <<"a">>, <<"a">>,
    <<"a">>, <<"a">>, <<"c">>, <<"e">>, <<"e">>, <<"e">>, <<"e">>, <<"i">>, <<"i">>, <<"i">>,
    <<"i">>, <<"n">>, <<"o">>, <<"o">>, <<"o">>, <<"o">>, <<"o">>, <<"u">>, <<"u">>, <<"u">>,
    <<"u">>, <<"y">>, <<"y">>, <<"A">>, <<"a">>, <<"A">>, <<"a">>, <<"A">>, <<"a">>, <<"C">>,
    <<"c">>, <<"C">>, <<"c">>, <<"C">>, <<"c">>, <<"C">>, <<"c">>, <<"D">>, <<"d">>, <<"E">>,
    <<"e">>, <<"E">>, <<"e">>, <<"E">>, <<"e">>, <<"E">>, <<"e">>, <<"E">>, <<"e">>, <<"G">>,
    <<"g">>, <<"G">>, <<"g">>, <<"G">>, <<"g">>, <<"G">>, <<"g">>, <<"H">>, <<"h">>, <<"I">>,
    <<"i">>, <<"I">>, <<"i">>, <<"I">>, <<"i">>, <<"I">>, <<"i">>, <<"I">>, <<"J">>, <<"j">>,
    <<"K">>, <<"k">>, <<"L">>, <<"l">>, <<"L">>, <<"l">>, <<"L">>, <<"l">>, <<"N">>, <<"n">>,
    <<"N">>, <<"n">>, <<"N">>, <<"n">>, <<"O">>, <<"o">>, <<"O">>, <<"o">>, <<"O">>, <<"o">>,
    <<"R">>, <<"r">>, <<"R">>, <<"r">>, <<"R">>, <<"r">>, <<"S">>, <<"s">>, <<"S">>, <<"s">>,
    <<"S">>, <<"s">>, <<"S">>, <<"s">>, <<"T">>, <<"t">>, <<"T">>, <<"t">>, <<"U">>, <<"u">>,
    <<"U">>, <<"u">>, <<"U">>, <<"u">>, <<"U">>, <<"u">>, <<"U">>, <<"u">>, <<"U">>, <<"u">>,
    <<"W">>, <<"w">>, <<"Y">>, <<"y">>, <<"Y">>, <<"Z">>, <<"z">>, <<"Z">>, <<"z">>, <<"Z">>,
    <<"z">>, <<"O">>, <<"o">>, <<"U">>, <<"u">>, <<"A">>, <<"a">>, <<"I">>, <<"i">>, <<"O">>,
    <<"o">>, <<"U">>, <<"u">>, <<"U">>, <<"u">>, <<"U">>, <<"u">>, <<"U">>, <<"u">>, <<"U">>,
    <<"u">>, <<"A">>, <<"a">>, <<"A">>, <<"a">>, <<"U+00C6">>, <<"U+00E6">>, <<"G">>, <<"g">>,
    <<"K">>, <<"k">>, <<"O">>, <<"o">>, <<"O">>, <<"o">>, <<"U+01B7">>, <<"U+0292">>, <<"j">>,
    <<"G">>, <<"g">>, <<"N">>, <<"n">>, <<"A">>, <<"a">>, <<"U+00C6">>, <<"U+00E6">>,
    <<"U+00D8">>, <<"U+00F8">>, <<"A">>, <<"a">>, <<"A">>, <<"a">>, <<"E">>, <<"e">>, <<"E">>,
    <<"e">>, <<"I">>, <<"i">>, <<"I">>, <<"i">>, <<"O">>, <<"o">>, <<"O">>, <<"o">>, <<"R">>,
    <<"r">>, <<"R">>, <<"r">>, <<"U">>, <<"u">>, <<"U">>, <<"u">>, <<"S">>, <<"s">>, <<"T">>,
    <<"t">>, <<"H">>, <<"h">>, <<"A">>, <<"a">>, <<"E">>, <<"e">>, <<"O">>, <<"o">>, <<"O">>,
    <<"o">>, <<"O">>, <<"o">>, <<"O">>, <<"o">>, <<"Y">>, <<"y">>, <<>>, <<>>, <<>>, <<>>, <<>>,
    <<>>, <<>>, <<>>, <<>>, <<>>, <<>>, <<>>, <<>>, <<>>, <<>>, <<>>, <<>>, <<>>, <<>>, <<>>,
    <<>>, <<>>, <<>>, <<>>, <<>>, <<>>, <<>>, <<>>, <<>>, <<>>, <<>>, <<>>, <<>>, <<>>, <<>>,
    <<>>, <<>>, <<>>, <<>>, <<>>, <<>>, <<>>, <<>>, <<>>, <<>>, <<>>, <<>>, <<>>, <<>>, <<>>,
    <<>>, <<>>, <<>>, <<>>, <<>>, <<>>, <<>>, <<>>, <<>>, <<>>, <<>>, <<>>, <<>>, <<>>, <<>>,
    <<>>, <<>>, <<>>, <<>>, <<>>, <<>>, <<>>, <<>>, <<>>, <<>>, <<>>, <<>>, <<>>, <<>>, <<>>,
    <<>>, <<>>, <<>>, <<>>, <<>>, <<>>, <<>>, <<>>, <<>>, <<>>, <<>>, <<>>, <<>>, <<>>, <<>>,
    <<>>, <<>>, <<>>, <<>>, <<>>, <<>>, <<>>, <<>>, <<>>, <<>>, <<>>, <<>>, <<>>, <<>>, <<>>,
    <<>>, <<>>, <<"U+02B9">>, <<";">>, <<"U+00A8">>, <<"U+0391">>, <<"U+00B7">>, <<"U+0395">>,
    <<"U+0397">>, <<"U+0399">>, <<"U+039F">>, <<"U+03A5">>, <<"U+03A9">>, <<"U+03B9">>,
    <<"U+0399">>, <<"U+03A5">>, <<"U+03B1">>, <<"U+03B5">>, <<"U+03B7">>, <<"U+03B9">>,
    <<"U+03C5">>, <<"U+03B9">>, <<"U+03C5">>, <<"U+03BF">>, <<"U+03C5">>, <<"U+03C9">>,
    <<"U+03D2">>, <<"U+03D2">>, <<"U+0415">>, <<"U+0415">>, <<"U+0413">>, <<"U+0406">>,
    <<"U+041A">>, <<"U+0418">>, <<"U+0423">>, <<"U+0418">>, <<"U+0438">>, <<"U+0435">>,
    <<"U+0435">>, <<"U+0433">>, <<"U+0456">>, <<"U+043A">>, <<"U+0438">>, <<"U+0443">>,
    <<"U+0474">>, <<"U+0475">>, <<"U+0416">>, <<"U+0436">>, <<"U+0410">>, <<"U+0430">>,
    <<"U+0410">>, <<"U+0430">>, <<"U+0415">>, <<"U+0435">>, <<"U+04D8">>, <<"U+04D9">>,
    <<"U+0416">>, <<"U+0436">>, <<"U+0417">>, <<"U+0437">>, <<"U+0418">>, <<"U+0438">>,
    <<"U+0418">>, <<"U+0438">>, <<"U+041E">>, <<"U+043E">>, <<"U+04E8">>, <<"U+04E9">>,
    <<"U+042D">>, <<"U+044D">>, <<"U+0423">>, <<"U+0443">>, <<"U+0423">>, <<"U+0443">>,
    <<"U+0423">>, <<"U+0443">>, <<"U+0427">>, <<"U+0447">>, <<"U+042B">>, <<"U+044B">>,
    <<"U+0627", "U+0653">>, <<"U+0627", "U+0654">>, <<"U+0648", "U+0654">>,
    <<"U+0627", "U+0655">>, <<"U+064A", "U+0654">>, <<"U+06D5", "U+0654">>,
    <<"U+06C1", "U+0654">>, <<"U+06D2", "U+0654">>, <<"U+0928", "U+093C">>,
    <<"U+0930", "U+093C">>, <<"U+0933", "U+093C">>, <<"U+0915", "U+093C">>,
    <<"U+0916", "U+093C">>, <<"U+0917", "U+093C">>, <<"U+091C", "U+093C">>,
    <<"U+0921", "U+093C">>, <<"U+0922", "U+093C">>, <<"U+092B", "U+093C">>,
    <<"U+092F", "U+093C">>, <<"U+09C7", "U+09BE">>, <<"U+09C7", "U+09D7">>,
    <<"U+09A1", "U+09BC">>, <<"U+09A2", "U+09BC">>, <<"U+09AF", "U+09BC">>,
    <<"U+0A32", "U+0A3C">>, <<"U+0A38", "U+0A3C">>, <<"U+0A16", "U+0A3C">>,
    <<"U+0A17", "U+0A3C">>, <<"U+0A1C", "U+0A3C">>, <<"U+0A2B", "U+0A3C">>,
    <<"U+0B47", "U+0B56">>, <<"U+0B47", "U+0B3E">>, <<"U+0B47", "U+0B57">>,
    <<"U+0B21", "U+0B3C">>, <<"U+0B22", "U+0B3C">>, <<"U+0B92", "U+0BD7">>,
    <<"U+0BC6", "U+0BBE">>, <<"U+0BC7", "U+0BBE">>, <<"U+0BC6", "U+0BD7">>,
    <<"U+0C46", "U+0C56">>, <<"U+0CBF", "U+0CD5">>, <<"U+0CC6", "U+0CD5">>,
    <<"U+0CC6", "U+0CD6">>, <<"U+0CC6", "U+0CC2">>, <<"U+0CC6", "U+0CC2", "U+0CD5">>,
    <<"U+0D46", "U+0D3E">>, <<"U+0D47", "U+0D3E">>, <<"U+0D46", "U+0D57">>,
    <<"U+0DD9", "U+0DCA">>, <<"U+0DD9", "U+0DCF">>, <<"U+0DD9", "U+0DCF", "U+0DCA">>,
    <<"U+0DD9", "U+0DDF">>, <<"U+0F42", "U+0FB7">>, <<"U+0F4C", "U+0FB7">>,
    <<"U+0F51", "U+0FB7">>, <<"U+0F56", "U+0FB7">>, <<"U+0F5B", "U+0FB7">>,
    <<"U+0F40", "U+0FB5">>, <<"U+0F71", "U+0F72">>, <<"U+0F71", "U+0F74">>,
    <<"U+0FB2", "U+0F80">>, <<"U+0FB3", "U+0F80">>, <<"U+0F71", "U+0F80">>,
    <<"U+0F92", "U+0FB7">>, <<"U+0F9C", "U+0FB7">>, <<"U+0FA1", "U+0FB7">>,
    <<"U+0FA6", "U+0FB7">>, <<"U+0FAB", "U+0FB7">>, <<"U+0F90", "U+0FB5">>,
    <<"U+1025", "U+102E">>, <<"U+1B05", "U+1B35">>, <<"U+1B07", "U+1B35">>,
    <<"U+1B09", "U+1B35">>, <<"U+1B0B", "U+1B35">>, <<"U+1B0D", "U+1B35">>,
    <<"U+1B11", "U+1B35">>, <<"U+1B3A", "U+1B35">>, <<"U+1B3C", "U+1B35">>,
    <<"U+1B3E", "U+1B35">>, <<"U+1B3F", "U+1B35">>, <<"U+1B42", "U+1B35">>, <<"A">>, <<"a">>,
    <<"B">>, <<"b">>, <<"B">>, <<"b">>, <<"B">>, <<"b">>, <<"C">>, <<"c">>, <<"D">>, <<"d">>,
    <<"D">>, <<"d">>, <<"D">>, <<"d">>, <<"D">>, <<"d">>, <<"D">>, <<"d">>, <<"E">>, <<"e">>,
    <<"E">>, <<"e">>, <<"E">>, <<"e">>, <<"E">>, <<"e">>, <<"E">>, <<"e">>, <<"F">>, <<"f">>,
    <<"G">>, <<"g">>, <<"H">>, <<"h">>, <<"H">>, <<"h">>, <<"H">>, <<"h">>, <<"H">>, <<"h">>,
    <<"H">>, <<"h">>, <<"I">>, <<"i">>, <<"I">>, <<"i">>, <<"K">>, <<"k">>, <<"K">>, <<"k">>,
    <<"K">>, <<"k">>, <<"L">>, <<"l">>, <<"L">>, <<"l">>, <<"L">>, <<"l">>, <<"L">>, <<"l">>,
    <<"M">>, <<"m">>, <<"M">>, <<"m">>, <<"M">>, <<"m">>, <<"N">>, <<"n">>, <<"N">>, <<"n">>,
    <<"N">>, <<"n">>, <<"N">>, <<"n">>, <<"O">>, <<"o">>, <<"O">>, <<"o">>, <<"O">>, <<"o">>,
    <<"O">>, <<"o">>, <<"P">>, <<"p">>, <<"P">>, <<"p">>, <<"R">>, <<"r">>, <<"R">>, <<"r">>,
    <<"R">>, <<"r">>, <<"R">>, <<"r">>, <<"S">>, <<"s">>, <<"S">>, <<"s">>, <<"S">>, <<"s">>,
    <<"S">>, <<"s">>, <<"S">>, <<"s">>, <<"T">>, <<"t">>, <<"T">>, <<"t">>, <<"T">>, <<"t">>,
    <<"T">>, <<"t">>, <<"U">>, <<"u">>, <<"U">>, <<"u">>, <<"U">>, <<"u">>, <<"U">>, <<"u">>,
    <<"U">>, <<"u">>, <<"V">>, <<"v">>, <<"V">>, <<"v">>, <<"W">>, <<"w">>, <<"W">>, <<"w">>,
    <<"W">>, <<"w">>, <<"W">>, <<"w">>, <<"W">>, <<"w">>, <<"X">>, <<"x">>, <<"X">>, <<"x">>,
    <<"Y">>, <<"y">>, <<"Z">>, <<"z">>, <<"Z">>, <<"z">>, <<"Z">>, <<"z">>, <<"h">>, <<"t">>,
    <<"w">>, <<"y">>, <<"U+017F">>, <<"A">>, <<"a">>, <<"A">>, <<"a">>, <<"A">>, <<"a">>,
    <<"A">>, <<"a">>, <<"A">>, <<"a">>, <<"A">>, <<"a">>, <<"A">>, <<"a">>, <<"A">>, <<"a">>,
    <<"A">>, <<"a">>, <<"A">>, <<"a">>, <<"A">>, <<"a">>, <<"A">>, <<"a">>, <<"E">>, <<"e">>,
    <<"E">>, <<"e">>, <<"E">>, <<"e">>, <<"E">>, <<"e">>, <<"E">>, <<"e">>, <<"E">>, <<"e">>,
    <<"E">>, <<"e">>, <<"E">>, <<"e">>, <<"I">>, <<"i">>, <<"I">>, <<"i">>, <<"O">>, <<"o">>,
    <<"O">>, <<"o">>, <<"O">>, <<"o">>, <<"O">>, <<"o">>, <<"O">>, <<"o">>, <<"O">>, <<"o">>,
    <<"O">>, <<"o">>, <<"O">>, <<"o">>, <<"O">>, <<"o">>, <<"O">>, <<"o">>, <<"O">>, <<"o">>,
    <<"O">>, <<"o">>, <<"U">>, <<"u">>, <<"U">>, <<"u">>, <<"U">>, <<"u">>, <<"U">>, <<"u">>,
    <<"U">>, <<"u">>, <<"U">>, <<"u">>, <<"U">>, <<"u">>, <<"Y">>, <<"y">>, <<"Y">>, <<"y">>,
    <<"Y">>, <<"y">>, <<"Y">>, <<"y">>, <<"U+03B1">>, <<"U+03B1">>, <<"U+03B1">>, <<"U+03B1">>,
    <<"U+03B1">>, <<"U+03B1">>, <<"U+03B1">>, <<"U+03B1">>, <<"U+0391">>, <<"U+0391">>,
    <<"U+0391">>, <<"U+0391">>, <<"U+0391">>, <<"U+0391">>, <<"U+0391">>, <<"U+0391">>,
    <<"U+03B5">>, <<"U+03B5">>, <<"U+03B5">>, <<"U+03B5">>, <<"U+03B5">>, <<"U+03B5">>,
    <<"U+0395">>, <<"U+0395">>, <<"U+0395">>, <<"U+0395">>, <<"U+0395">>, <<"U+0395">>,
    <<"U+03B7">>, <<"U+03B7">>, <<"U+03B7">>, <<"U+03B7">>, <<"U+03B7">>, <<"U+03B7">>,
    <<"U+03B7">>, <<"U+03B7">>, <<"U+0397">>, <<"U+0397">>, <<"U+0397">>, <<"U+0397">>,
    <<"U+0397">>, <<"U+0397">>, <<"U+0397">>, <<"U+0397">>, <<"U+03B9">>, <<"U+03B9">>,
    <<"U+03B9">>, <<"U+03B9">>, <<"U+03B9">>, <<"U+03B9">>, <<"U+03B9">>, <<"U+03B9">>,
    <<"U+0399">>, <<"U+0399">>, <<"U+0399">>, <<"U+0399">>, <<"U+0399">>, <<"U+0399">>,
    <<"U+0399">>, <<"U+0399">>, <<"U+03BF">>, <<"U+03BF">>, <<"U+03BF">>, <<"U+03BF">>,
    <<"U+03BF">>, <<"U+03BF">>, <<"U+039F">>, <<"U+039F">>, <<"U+039F">>, <<"U+039F">>,
    <<"U+039F">>, <<"U+039F">>, <<"U+03C5">>, <<"U+03C5">>, <<"U+03C5">>, <<"U+03C5">>,
    <<"U+03C5">>, <<"U+03C5">>, <<"U+03C5">>, <<"U+03C5">>, <<"U+03A5">>, <<"U+03A5">>,
    <<"U+03A5">>, <<"U+03A5">>, <<"U+03C9">>, <<"U+03C9">>, <<"U+03C9">>, <<"U+03C9">>,
    <<"U+03C9">>, <<"U+03C9">>, <<"U+03C9">>, <<"U+03C9">>, <<"U+03A9">>, <<"U+03A9">>,
    <<"U+03A9">>, <<"U+03A9">>, <<"U+03A9">>, <<"U+03A9">>, <<"U+03A9">>, <<"U+03A9">>,
    <<"U+03B1">>, <<"U+03B1">>, <<"U+03B5">>, <<"U+03B5">>, <<"U+03B7">>, <<"U+03B7">>,
    <<"U+03B9">>, <<"U+03B9">>, <<"U+03BF">>, <<"U+03BF">>, <<"U+03C5">>, <<"U+03C5">>,
    <<"U+03C9">>, <<"U+03C9">>, <<"U+03B1">>, <<"U+03B1">>, <<"U+03B1">>, <<"U+03B1">>,
    <<"U+03B1">>, <<"U+03B1">>, <<"U+03B1">>, <<"U+03B1">>, <<"U+0391">>, <<"U+0391">>,
    <<"U+0391">>, <<"U+0391">>, <<"U+0391">>, <<"U+0391">>, <<"U+0391">>, <<"U+0391">>,
    <<"U+03B7">>, <<"U+03B7">>, <<"U+03B7">>, <<"U+03B7">>, <<"U+03B7">>, <<"U+03B7">>,
    <<"U+03B7">>, <<"U+03B7">>, <<"U+0397">>, <<"U+0397">>, <<"U+0397">>, <<"U+0397">>,
    <<"U+0397">>, <<"U+0397">>, <<"U+0397">>, <<"U+0397">>, <<"U+03C9">>, <<"U+03C9">>,
    <<"U+03C9">>, <<"U+03C9">>, <<"U+03C9">>, <<"U+03C9">>, <<"U+03C9">>, <<"U+03C9">>,
    <<"U+03A9">>, <<"U+03A9">>, <<"U+03A9">>, <<"U+03A9">>, <<"U+03A9">>, <<"U+03A9">>,
    <<"U+03A9">>, <<"U+03A9">>, <<"U+03B1">>, <<"U+03B1">>, <<"U+03B1">>, <<"U+03B1">>,
    <<"U+03B1">>, <<"U+03B1">>, <<"U+03B1">>, <<"U+0391">>, <<"U+0391">>, <<"U+0391">>,
    <<"U+0391">>, <<"U+0391">>, <<"U+03B9">>, <<"U+00A8">>, <<"U+03B7">>, <<"U+03B7">>,
    <<"U+03B7">>, <<"U+03B7">>, <<"U+03B7">>, <<"U+0395">>, <<"U+0395">>, <<"U+0397">>,
    <<"U+0397">>, <<"U+0397">>, <<"U+1FBF">>, <<"U+1FBF">>, <<"U+1FBF">>, <<"U+03B9">>,
    <<"U+03B9">>, <<"U+03B9">>, <<"U+03B9">>, <<"U+03B9">>, <<"U+03B9">>, <<"U+0399">>,
    <<"U+0399">>, <<"U+0399">>, <<"U+0399">>, <<"U+1FFE">>, <<"U+1FFE">>, <<"U+1FFE">>,
    <<"U+03C5">>, <<"U+03C5">>, <<"U+03C5">>, <<"U+03C5">>, <<"U+03C1">>, <<"U+03C1">>,
    <<"U+03C5">>, <<"U+03C5">>, <<"U+03A5">>, <<"U+03A5">>, <<"U+03A5">>, <<"U+03A5">>,
    <<"U+03A1">>, <<"U+00A8">>, <<"U+00A8">>, <<"U+0060">>, <<"U+03C9">>, <<"U+03C9">>,
    <<"U+03C9">>, <<"U+03C9">>, <<"U+03C9">>, <<"U+039F">>, <<"U+039F">>, <<"U+03A9">>,
    <<"U+03A9">>, <<"U+03A9">>, <<"U+00B4">>, <<"U+2002">>, <<"U+2003">>, <<"U+03A9">>, <<"K">>,
    <<"A">>, <<"U+2190">>, <<"U+2192">>, <<"U+2194">>, <<"U+21D0">>, <<"U+21D4">>, <<"U+21D2">>,
    <<"U+2203">>, <<"U+2208">>, <<"U+220B">>, <<"U+2223">>, <<"U+2225">>, <<"U+223C">>,
    <<"U+2243">>, <<"U+2245">>, <<"U+2248">>, <<"=">>, <<"U+2261">>, <<"U+224D">>, <<"<">>,
    <<">">>, <<"U+2264">>, <<"U+2265">>, <<"U+2272">>, <<"U+2273">>, <<"U+2276">>, <<"U+2277">>,
    <<"U+227A">>, <<"U+227B">>, <<"U+2282">>, <<"U+2283">>, <<"U+2286">>, <<"U+2287">>,
    <<"U+22A2">>, <<"U+22A8">>, <<"U+22A9">>, <<"U+22AB">>, <<"U+227C">>, <<"U+227D">>,
    <<"U+2291">>, <<"U+2292">>, <<"U+22B2">>, <<"U+22B3">>, <<"U+22B4">>, <<"U+22B5">>,
    <<"U+3008">>, <<"U+3009">>, <<"U+2ADD">>, <<"U+304B", "U+3099">>, <<"U+304D", "U+3099">>,
    <<"U+304F", "U+3099">>, <<"U+3051", "U+3099">>, <<"U+3053", "U+3099">>,
    <<"U+3055", "U+3099">>, <<"U+3057", "U+3099">>, <<"U+3059", "U+3099">>,
    <<"U+305B", "U+3099">>, <<"U+305D", "U+3099">>, <<"U+305F", "U+3099">>,
    <<"U+3061", "U+3099">>, <<"U+3064", "U+3099">>, <<"U+3066", "U+3099">>,
    <<"U+3068", "U+3099">>, <<"U+306F", "U+3099">>, <<"U+306F", "U+309A">>,
    <<"U+3072", "U+3099">>, <<"U+3072", "U+309A">>, <<"U+3075", "U+3099">>,
    <<"U+3075", "U+309A">>, <<"U+3078", "U+3099">>, <<"U+3078", "U+309A">>,
    <<"U+307B", "U+3099">>, <<"U+307B", "U+309A">>, <<"U+3046", "U+3099">>,
    <<"U+309D", "U+3099">>, <<"U+30AB", "U+3099">>, <<"U+30AD", "U+3099">>,
    <<"U+30AF", "U+3099">>, <<"U+30B1", "U+3099">>, <<"U+30B3", "U+3099">>,
    <<"U+30B5", "U+3099">>, <<"U+30B7", "U+3099">>, <<"U+30B9", "U+3099">>,
    <<"U+30BB", "U+3099">>, <<"U+30BD", "U+3099">>, <<"U+30BF", "U+3099">>,
    <<"U+30C1", "U+3099">>, <<"U+30C4", "U+3099">>, <<"U+30C6", "U+3099">>,
    <<"U+30C8", "U+3099">>, <<"U+30CF", "U+3099">>, <<"U+30CF", "U+309A">>,
    <<"U+30D2", "U+3099">>, <<"U+30D2", "U+309A">>, <<"U+30D5", "U+3099">>,
    <<"U+30D5", "U+309A">>, <<"U+30D8", "U+3099">>, <<"U+30D8", "U+309A">>,
    <<"U+30DB", "U+3099">>, <<"U+30DB", "U+309A">>, <<"U+30A6", "U+3099">>,
    <<"U+30EF", "U+3099">>, <<"U+30F0", "U+3099">>, <<"U+30F1", "U+3099">>,
    <<"U+30F2", "U+3099">>, <<"U+30FD", "U+3099">>, <<"U+8C48">>, <<"U+66F4">>, <<"U+8ECA">>,
    <<"U+8CC8">>, <<"U+6ED1">>, <<"U+4E32">>, <<"U+53E5">>, <<"U+9F9C">>, <<"U+9F9C">>,
    <<"U+5951">>, <<"U+91D1">>, <<"U+5587">>, <<"U+5948">>, <<"U+61F6">>, <<"U+7669">>,
    <<"U+7F85">>, <<"U+863F">>, <<"U+87BA">>, <<"U+88F8">>, <<"U+908F">>, <<"U+6A02">>,
    <<"U+6D1B">>, <<"U+70D9">>, <<"U+73DE">>, <<"U+843D">>, <<"U+916A">>, <<"U+99F1">>,
    <<"U+4E82">>, <<"U+5375">>, <<"U+6B04">>, <<"U+721B">>, <<"U+862D">>, <<"U+9E1E">>,
    <<"U+5D50">>, <<"U+6FEB">>, <<"U+85CD">>, <<"U+8964">>, <<"U+62C9">>, <<"U+81D8">>,
    <<"U+881F">>, <<"U+5ECA">>, <<"U+6717">>, <<"U+6D6A">>, <<"U+72FC">>, <<"U+90CE">>,
    <<"U+4F86">>, <<"U+51B7">>, <<"U+52DE">>, <<"U+64C4">>, <<"U+6AD3">>, <<"U+7210">>,
    <<"U+76E7">>, <<"U+8001">>, <<"U+8606">>, <<"U+865C">>, <<"U+8DEF">>, <<"U+9732">>,
    <<"U+9B6F">>, <<"U+9DFA">>, <<"U+788C">>, <<"U+797F">>, <<"U+7DA0">>, <<"U+83C9">>,
    <<"U+9304">>, <<"U+9E7F">>, <<"U+8AD6">>, <<"U+58DF">>, <<"U+5F04">>, <<"U+7C60">>,
    <<"U+807E">>, <<"U+7262">>, <<"U+78CA">>, <<"U+8CC2">>, <<"U+96F7">>, <<"U+58D8">>,
    <<"U+5C62">>, <<"U+6A13">>, <<"U+6DDA">>, <<"U+6F0F">>, <<"U+7D2F">>, <<"U+7E37">>,
    <<"U+964B">>, <<"U+52D2">>, <<"U+808B">>, <<"U+51DC">>, <<"U+51CC">>, <<"U+7A1C">>,
    <<"U+7DBE">>, <<"U+83F1">>, <<"U+9675">>, <<"U+8B80">>, <<"U+62CF">>, <<"U+6A02">>,
    <<"U+8AFE">>, <<"U+4E39">>, <<"U+5BE7">>, <<"U+6012">>, <<"U+7387">>, <<"U+7570">>,
    <<"U+5317">>, <<"U+78FB">>, <<"U+4FBF">>, <<"U+5FA9">>, <<"U+4E0D">>, <<"U+6CCC">>,
    <<"U+6578">>, <<"U+7D22">>, <<"U+53C3">>, <<"U+585E">>, <<"U+7701">>, <<"U+8449">>,
    <<"U+8AAA">>, <<"U+6BBA">>, <<"U+8FB0">>, <<"U+6C88">>, <<"U+62FE">>, <<"U+82E5">>,
    <<"U+63A0">>, <<"U+7565">>, <<"U+4EAE">>, <<"U+5169">>, <<"U+51C9">>, <<"U+6881">>,
    <<"U+7CE7">>, <<"U+826F">>, <<"U+8AD2">>, <<"U+91CF">>, <<"U+52F5">>, <<"U+5442">>,
    <<"U+5973">>, <<"U+5EEC">>, <<"U+65C5">>, <<"U+6FFE">>, <<"U+792A">>, <<"U+95AD">>,
    <<"U+9A6A">>, <<"U+9E97">>, <<"U+9ECE">>, <<"U+529B">>, <<"U+66C6">>, <<"U+6B77">>,
    <<"U+8F62">>, <<"U+5E74">>, <<"U+6190">>, <<"U+6200">>, <<"U+649A">>, <<"U+6F23">>,
    <<"U+7149">>, <<"U+7489">>, <<"U+79CA">>, <<"U+7DF4">>, <<"U+806F">>, <<"U+8F26">>,
    <<"U+84EE">>, <<"U+9023">>, <<"U+934A">>, <<"U+5217">>, <<"U+52A3">>, <<"U+54BD">>,
    <<"U+70C8">>, <<"U+88C2">>, <<"U+8AAA">>, <<"U+5EC9">>, <<"U+5FF5">>, <<"U+637B">>,
    <<"U+6BAE">>, <<"U+7C3E">>, <<"U+7375">>, <<"U+4EE4">>, <<"U+56F9">>, <<"U+5BE7">>,
    <<"U+5DBA">>, <<"U+601C">>, <<"U+73B2">>, <<"U+7469">>, <<"U+7F9A">>, <<"U+8046">>,
    <<"U+9234">>, <<"U+96F6">>, <<"U+9748">>, <<"U+9818">>, <<"U+4F8B">>, <<"U+79AE">>,
    <<"U+91B4">>, <<"U+96B8">>, <<"U+60E1">>, <<"U+4E86">>, <<"U+50DA">>, <<"U+5BEE">>,
    <<"U+5C3F">>, <<"U+6599">>, <<"U+6A02">>, <<"U+71CE">>, <<"U+7642">>, <<"U+84FC">>,
    <<"U+907C">>, <<"U+9F8D">>, <<"U+6688">>, <<"U+962E">>, <<"U+5289">>, <<"U+677B">>,
    <<"U+67F3">>, <<"U+6D41">>, <<"U+6E9C">>, <<"U+7409">>, <<"U+7559">>, <<"U+786B">>,
    <<"U+7D10">>, <<"U+985E">>, <<"U+516D">>, <<"U+622E">>, <<"U+9678">>, <<"U+502B">>,
    <<"U+5D19">>, <<"U+6DEA">>, <<"U+8F2A">>, <<"U+5F8B">>, <<"U+6144">>, <<"U+6817">>,
    <<"U+7387">>, <<"U+9686">>, <<"U+5229">>, <<"U+540F">>, <<"U+5C65">>, <<"U+6613">>,
    <<"U+674E">>, <<"U+68A8">>, <<"U+6CE5">>, <<"U+7406">>, <<"U+75E2">>, <<"U+7F79">>,
    <<"U+88CF">>, <<"U+88E1">>, <<"U+91CC">>, <<"U+96E2">>, <<"U+533F">>, <<"U+6EBA">>,
    <<"U+541D">>, <<"U+71D0">>, <<"U+7498">>, <<"U+85FA">>, <<"U+96A3">>, <<"U+9C57">>,
    <<"U+9E9F">>, <<"U+6797">>, <<"U+6DCB">>, <<"U+81E8">>, <<"U+7ACB">>, <<"U+7B20">>,
    <<"U+7C92">>, <<"U+72C0">>, <<"U+7099">>, <<"U+8B58">>, <<"U+4EC0">>, <<"U+8336">>,
    <<"U+523A">>, <<"U+5207">>, <<"U+5EA6">>, <<"U+62D3">>, <<"U+7CD6">>, <<"U+5B85">>,
    <<"U+6D1E">>, <<"U+66B4">>, <<"U+8F3B">>, <<"U+884C">>, <<"U+964D">>, <<"U+898B">>,
    <<"U+5ED3">>, <<"U+5140">>, <<"U+55C0">>, <<"U+585A">>, <<"U+6674">>, <<"U+51DE">>,
    <<"U+732A">>, <<"U+76CA">>, <<"U+793C">>, <<"U+795E">>, <<"U+7965">>, <<"U+798F">>,
    <<"U+9756">>, <<"U+7CBE">>, <<"U+7FBD">>, <<"U+8612">>, <<"U+8AF8">>, <<"U+9038">>,
    <<"U+90FD">>, <<"U+98EF">>, <<"U+98FC">>, <<"U+9928">>, <<"U+9DB4">>, <<"U+90DE">>,
    <<"U+96B7">>, <<"U+4FAE">>, <<"U+50E7">>, <<"U+514D">>, <<"U+52C9">>, <<"U+52E4">>,
    <<"U+5351">>, <<"U+559D">>, <<"U+5606">>, <<"U+5668">>, <<"U+5840">>, <<"U+58A8">>,
    <<"U+5C64">>, <<"U+5C6E">>, <<"U+6094">>, <<"U+6168">>, <<"U+618E">>, <<"U+61F2">>,
    <<"U+654F">>, <<"U+65E2">>, <<"U+6691">>, <<"U+6885">>, <<"U+6D77">>, <<"U+6E1A">>,
    <<"U+6F22">>, <<"U+716E">>, <<"U+722B">>, <<"U+7422">>, <<"U+7891">>, <<"U+793E">>,
    <<"U+7949">>, <<"U+7948">>, <<"U+7950">>, <<"U+7956">>, <<"U+795D">>, <<"U+798D">>,
    <<"U+798E">>, <<"U+7A40">>, <<"U+7A81">>, <<"U+7BC0">>, <<"U+7DF4">>, <<"U+7E09">>,
    <<"U+7E41">>, <<"U+7F72">>, <<"U+8005">>, <<"U+81ED">>, <<"U+8279">>, <<"U+8279">>,
    <<"U+8457">>, <<"U+8910">>, <<"U+8996">>, <<"U+8B01">>, <<"U+8B39">>, <<"U+8CD3">>,
    <<"U+8D08">>, <<"U+8FB6">>, <<"U+9038">>, <<"U+96E3">>, <<"U+97FF">>, <<"U+983B">>,
    <<"U+6075">>, <<"U+D850", "U+DEEE">>, <<"U+8218">>, <<"U+4E26">>, <<"U+51B5">>, <<"U+5168">>,
    <<"U+4F80">>, <<"U+5145">>, <<"U+5180">>, <<"U+52C7">>, <<"U+52FA">>, <<"U+559D">>,
    <<"U+5555">>, <<"U+5599">>, <<"U+55E2">>, <<"U+585A">>, <<"U+58B3">>, <<"U+5944">>,
    <<"U+5954">>, <<"U+5A62">>, <<"U+5B28">>, <<"U+5ED2">>, <<"U+5ED9">>, <<"U+5F69">>,
    <<"U+5FAD">>, <<"U+60D8">>, <<"U+614E">>, <<"U+6108">>, <<"U+618E">>, <<"U+6160">>,
    <<"U+61F2">>, <<"U+6234">>, <<"U+63C4">>, <<"U+641C">>, <<"U+6452">>, <<"U+6556">>,
    <<"U+6674">>, <<"U+6717">>, <<"U+671B">>, <<"U+6756">>, <<"U+6B79">>, <<"U+6BBA">>,
    <<"U+6D41">>, <<"U+6EDB">>, <<"U+6ECB">>, <<"U+6F22">>, <<"U+701E">>, <<"U+716E">>,
    <<"U+77A7">>, <<"U+7235">>, <<"U+72AF">>, <<"U+732A">>, <<"U+7471">>, <<"U+7506">>,
    <<"U+753B">>, <<"U+761D">>, <<"U+761F">>, <<"U+76CA">>, <<"U+76DB">>, <<"U+76F4">>,
    <<"U+774A">>, <<"U+7740">>, <<"U+78CC">>, <<"U+7AB1">>, <<"U+7BC0">>, <<"U+7C7B">>,
    <<"U+7D5B">>, <<"U+7DF4">>, <<"U+7F3E">>, <<"U+8005">>, <<"U+8352">>, <<"U+83EF">>,
    <<"U+8779">>, <<"U+8941">>, <<"U+8986">>, <<"U+8996">>, <<"U+8ABF">>, <<"U+8AF8">>,
    <<"U+8ACB">>, <<"U+8B01">>, <<"U+8AFE">>, <<"U+8AED">>, <<"U+8B39">>, <<"U+8B8A">>,
    <<"U+8D08">>, <<"U+8F38">>, <<"U+9072">>, <<"U+9199">>, <<"U+9276">>, <<"U+967C">>,
    <<"U+96E3">>, <<"U+9756">>, <<"U+97DB">>, <<"U+97FF">>, <<"U+980B">>, <<"U+983B">>,
    <<"U+9B12">>, <<"U+9F9C">>, <<"U+D84A", "U+DC4A">>, <<"U+D84A", "U+DC44">>,
    <<"U+D84C", "U+DFD5">>, <<"U+3B9D">>, <<"U+4018">>, <<"U+4039">>, <<"U+D854", "U+DE49">>,
    <<"U+D857", "U+DCD0">>, <<"U+D85F", "U+DED3">>, <<"U+9F43">>, <<"U+9F8E">>,
    <<"U+05D9", "U+05B4">>, <<"U+05F2", "U+05B7">>, <<"U+05E9", "U+05C1">>,
    <<"U+05E9", "U+05C2">>, <<"U+05E9", "U+05BC", "U+05C1">>, <<"U+05E9", "U+05BC", "U+05C2">>,
    <<"U+05D0", "U+05B7">>, <<"U+05D0", "U+05B8">>, <<"U+05D0", "U+05BC">>,
    <<"U+05D1", "U+05BC">>, <<"U+05D2", "U+05BC">>, <<"U+05D3", "U+05BC">>,
    <<"U+05D4", "U+05BC">>, <<"U+05D5", "U+05BC">>, <<"U+05D6", "U+05BC">>,
    <<"U+05D8", "U+05BC">>, <<"U+05D9", "U+05BC">>, <<"U+05DA", "U+05BC">>,
    <<"U+05DB", "U+05BC">>, <<"U+05DC", "U+05BC">>, <<"U+05DE", "U+05BC">>,
    <<"U+05E0", "U+05BC">>, <<"U+05E1", "U+05BC">>, <<"U+05E3", "U+05BC">>,
    <<"U+05E4", "U+05BC">>, <<"U+05E6", "U+05BC">>, <<"U+05E7", "U+05BC">>,
    <<"U+05E8", "U+05BC">>, <<"U+05E9", "U+05BC">>, <<"U+05EA", "U+05BC">>,
    <<"U+05D5", "U+05B9">>, <<"U+05D1", "U+05BF">>, <<"U+05DB", "U+05BF">>, <<"U+05E4", "U+05BF">> >>

\* the characters with the property Case_Ignorable, which the rule of the final sigma
\* of toLowerCase skips, of the Basic Multilingual Plane
CaseIgnorable ==
  {
    "'", ".", ":", "^", "U+0060", "U+00A8", "U+00AD", "U+00AF", "U+00B4", "U+00B7", "U+00B8",
    "U+02B0", "U+02B1", "U+02B2", "U+02B3", "U+02B4", "U+02B5", "U+02B6", "U+02B7", "U+02B8",
    "U+02B9", "U+02BA", "U+02BB", "U+02BC", "U+02BD", "U+02BE", "U+02BF", "U+02C0", "U+02C1",
    "U+02C2", "U+02C3", "U+02C4", "U+02C5", "U+02C6", "U+02C7", "U+02C8", "U+02C9", "U+02CA",
    "U+02CB", "U+02CC", "U+02CD", "U+02CE", "U+02CF", "U+02D0", "U+02D1", "U+02D2", "U+02D3",
    "U+02D4", "U+02D5", "U+02D6", "U+02D7", "U+02D8", "U+02D9", "U+02DA", "U+02DB", "U+02DC",
    "U+02DD", "U+02DE", "U+02DF", "U+02E0", "U+02E1", "U+02E2", "U+02E3", "U+02E4", "U+02E5",
    "U+02E6", "U+02E7", "U+02E8", "U+02E9", "U+02EA", "U+02EB", "U+02EC", "U+02ED", "U+02EE",
    "U+02EF", "U+02F0", "U+02F1", "U+02F2", "U+02F3", "U+02F4", "U+02F5", "U+02F6", "U+02F7",
    "U+02F8", "U+02F9", "U+02FA", "U+02FB", "U+02FC", "U+02FD", "U+02FE", "U+02FF", "U+0300",
    "U+0301", "U+0302", "U+0303", "U+0304", "U+0305", "U+0306", "U+0307", "U+0308", "U+0309",
    "U+030A", "U+030B", "U+030C", "U+030D", "U+030E", "U+030F", "U+0310", "U+0311", "U+0312",
    "U+0313", "U+0314", "U+0315", "U+0316", "U+0317", "U+0318", "U+0319", "U+031A", "U+031B",
    "U+031C", "U+031D", "U+031E", "U+031F", "U+0320", "U+0321", "U+0322", "U+0323", "U+0324",
    "U+0325", "U+0326", "U+0327", "U+0328", "U+0329", "U+032A", "U+032B", "U+032C", "U+032D",
    "U+032E", "U+032F", "U+0330", "U+0331", "U+0332", "U+0333", "U+0334", "U+0335", "U+0336",
    "U+0337", "U+0338", "U+0339", "U+033A", "U+033B", "U+033C", "U+033D", "U+033E", "U+033F",
    "U+0340", "U+0341", "U+0342", "U+0343", "U+0344", "U+0345", "U+0346", "U+0347", "U+0348",
    "U+0349", "U+034A", "U+034B", "U+034C", "U+034D", "U+034E", "U+034F", "U+0350", "U+0351",
    "U+0352", "U+0353", "U+0354", "U+0355", "U+0356", "U+0357", "U+0358", "U+0359", "U+035A",
    "U+035B", "U+035C", "U+035D", "U+035E", "U+035F", "U+0360", "U+0361", "U+0362", "U+0363",
    "U+0364", "U+0365", "U+0366", "U+0367", "U+0368", "U+0369", "U+036A", "U+036B", "U+036C",
    "U+036D", "U+036E", "U+036F", "U+0374", "U+0375", "U+037A", "U+0384", "U+0385", "U+0387",
    "U+0483", "U+0484", "U+0485", "U+0486", "U+0487", "U+0488", "U+0489", "U+0559", "U+055F",
    "U+0591", "U+0592", "U+0593", "U+0594", "U+0595", "U+0596", "U+0597", "U+0598", "U+0599",
    "U+059A", "U+059B", "U+059C", "U+059D", "U+059E", "U+059F", "U+05A0", "U+05A1", "U+05A2",
    "U+05A3", "U+05A4", "U+05A5", "U+05A6", "U+05A7", "U+05A8", "U+05A9", "U+05AA", "U+05AB",
    "U+05AC", "U+05AD", "U+05AE", "U+05AF", "U+05B0", "U+05B1", "U+05B2", "U+05B3", "U+05B4",
    "U+05B5", "U+05B6", "U+05B7", "U+05B8", "U+05B9", "U+05BA", "U+05BB", "U+05BC", "U+05BD",
    "U+05BF", "U+05C1", "U+05C2", "U+05C4", "U+05C5", "U+05C7", "U+05F4", "U+0600", "U+0601",
    "U+0602", "U+0603", "U+0604", "U+0605", "U+0610", "U+0611", "U+0612", "U+0613", "U+0614",
    "U+0615", "U+0616", "U+0617", "U+0618", "U+0619", "U+061A", "U+061C", "U+0640", "U+064B",
    "U+064C", "U+064D", "U+064E", "U+064F", "U+0650", "U+0651", "U+0652", "U+0653", "U+0654",
    "U+0655", "U+0656", "U+0657", "U+0658", "U+0659", "U+065A", "U+065B", "U+065C", "U+065D",
    "U+065E", "U+065F", "U+0670", "U+06D6", "U+06D7", "U+06D8", "U+06D9", "U+06DA", "U+06DB",
    "U+06DC", "U+06DD", "U+06DF", "U+06E0", "U+06E1", "U+06E2", "U+06E3", "U+06E4", "U+06E5",
    "U+06E6", "U+06E7", "U+06E8", "U+06EA", "U+06EB", "U+06EC", "U+06ED", "U+070F", "U+0711",
    "U+0730", "U+0731", "U+0732", "U+0733", "U+0734", "U+0735", "U+0736", "U+0737", "U+0738",
    "U+0739", "U+073A", "U+073B", "U+073C", "U+073D", "U+073E", "U+073F", "U+0740", "U+0741",
    "U+0742", "U+0743", "U+0744", "U+0745", "U+0746", "U+0747", "U+0748", "U+0749", "U+074A",
    "U+07A6", "U+07A7", "U+07A8", "U+07A9", "U+07AA", "U+07AB", "U+07AC", "U+07AD", "U+07AE",
    "U+07AF", "U+07B0", "U+07EB", "U+07EC", "U+07ED", "U+07EE", "U+07EF", "U+07F0", "U+07F1",
    "U+07F2", "U+07F3", "U+07F4", "U+07F5", "U+07FA", "U+07FD", "U+0816", "U+0817", "U+0818",
    "U+0819", "U+081A", "U+081B", "U+081C", "U+081D", "U+081E", "U+081F", "U+0820", "U+0821",
    "U+0822", "U+0823", "U+0824", "U+0825", "U+0826", "U+0827", "U+0828", "U+0829", "U+082A",
    "U+082B", "U+082C", "U+082D", "U+0859", "U+085A", "U+085B", "U+0888", "U+0890", "U+0891",
    "U+0897", "U+0898", "U+0899", "U+089A", "U+089B", "U+089C", "U+089D", "U+089E", "U+089F",
    "U+08C9", "U+08CA", "U+08CB", "U+08CC", "U+08CD", "U+08CE", "U+08CF", "U+08D0", "U+08D1",
    "U+08D2", "U+08D3", "U+08D4", "U+08D5", "U+08D6", "U+08D7", "U+08D8", "U+08D9", "U+08DA",
    "U+08DB", "U+08DC", "U+08DD", "U+08DE", "U+08DF", "U+08E0", "U+08E1", "U+08E2", "U+08E3",
    "U+08E4", "U+08E5", "U+08E6", "U+08E7", "U+08E8", "U+08E9", "U+08EA", "U+08EB", "U+08EC",
    "U+08ED", "U+08EE", "U+08EF", "U+08F0", "U+08F1", "U+08F2", "U+08F3", "U+08F4", "U+08F5",
    "U+08F6", "U+08F7", "U+08F8", "U+08F9", "U+08FA", "U+08FB", "U+08FC", "U+08FD", "U+08FE",
    "U+08FF", "U+0900", "U+0901", "U+0902", "U+093A", "U+093C", "U+0941", "U+0942", "U+0943",
    "U+0944", "U+0945", "U+0946", "U+0947", "U+0948", "U+094D", "U+0951", "U+0952", "U+0953",
    "U+0954", "U+0955", "U+0956", "U+0957", "U+0962", "U+0963", "U+0971", "U+0981", "U+09BC",
    "U+09C1", "U+09C2", "U+09C3", "U+09C4", "U+09CD", "U+09E2", "U+09E3", "U+09FE", "U+0A01",
    "U+0A02", "U+0A3C", "U+0A41", "U+0A42", "U+0A47", "U+0A48", "U+0A4B", "U+0A4C", "U+0A4D",
    "U+0A51", "U+0A70", "U+0A71", "U+0A75", "U+0A81", "U+0A82", "U+0ABC", "U+0AC1", "U+0AC2",
    "U+0AC3", "U+0AC4", "U+0AC5", "U+0AC7", "U+0AC8", "U+0ACD", "U+0AE2", "U+0AE3", "U+0AFA",
    "U+0AFB", "U+0AFC", "U+0AFD", "U+0AFE", "U+0AFF", "U+0B01", "U+0B3C", "U+0B3F", "U+0B41",
    "U+0B42", "U+0B43", "U+0B44", "U+0B4D", "U+0B55", "U+0B56", "U+0B62", "U+0B63", "U+0B82",
    "U+0BC0", "U+0BCD", "U+0C00", "U+0C04", "U+0C3C", "U+0C3E", "U+0C3F", "U+0C40", "U+0C46",
    "U+0C47", "U+0C48", "U+0C4A", "U+0C4B", "U+0C4C", "U+0C4D", "U+0C55", "U+0C56", "U+0C62",
    "U+0C63", "U+0C81", "U+0CBC", "U+0CBF", "U+0CC6", "U+0CCC", "U+0CCD", "U+0CE2", "U+0CE3",
    "U+0D00", "U+0D01", "U+0D3B", "U+0D3C", "U+0D41", "U+0D42", "U+0D43", "U+0D44", "U+0D4D",
    "U+0D62", "U+0D63", "U+0D81", "U+0DCA", "U+0DD2", "U+0DD3", "U+0DD4", "U+0DD6", "U+0E31",
    "U+0E34", "U+0E35", "U+0E36", "U+0E37", "U+0E38", "U+0E39", "U+0E3A", "U+0E46", "U+0E47",
    "U+0E48", "U+0E49", "U+0E4A", "U+0E4B", "U+0E4C", "U+0E4D", "U+0E4E", "U+0EB1", "U+0EB4",
    "U+0EB5", "U+0EB6", "U+0EB7", "U+0EB8", "U+0EB9", "U+0EBA", "U+0EBB", "U+0EBC", "U+0EC6",
    "U+0EC8", "U+0EC9", "U+0ECA", "U+0ECB", "U+0ECC", "U+0ECD", "U+0ECE", "U+0F18", "U+0F19",
    "U+0F35", "U+0F37", "U+0F39", "U+0F71", "U+0F72", "U+0F73", "U+0F74", "U+0F75", "U+0F76",
    "U+0F77", "U+0F78", "U+0F79", "U+0F7A", "U+0F7B", "U+0F7C", "U+0F7D", "U+0F7E", "U+0F80",
    "U+0F81", "U+0F82", "U+0F83", "U+0F84", "U+0F86", "U+0F87", "U+0F8D", "U+0F8E", "U+0F8F",
    "U+0F90", "U+0F91", "U+0F92", "U+0F93", "U+0F94", "U+0F95", "U+0F96", "U+0F97", "U+0F99",
    "U+0F9A", "U+0F9B", "U+0F9C", "U+0F9D", "U+0F9E", "U+0F9F", "U+0FA0", "U+0FA1", "U+0FA2",
    "U+0FA3", "U+0FA4", "U+0FA5", "U+0FA6", "U+0FA7", "U+0FA8", "U+0FA9", "U+0FAA", "U+0FAB",
    "U+0FAC", "U+0FAD", "U+0FAE", "U+0FAF", "U+0FB0", "U+0FB1", "U+0FB2", "U+0FB3", "U+0FB4",
    "U+0FB5", "U+0FB6", "U+0FB7", "U+0FB8", "U+0FB9", "U+0FBA", "U+0FBB", "U+0FBC", "U+0FC6",
    "U+102D", "U+102E", "U+102F", "U+1030", "U+1032", "U+1033", "U+1034", "U+1035", "U+1036",
    "U+1037", "U+1039", "U+103A", "U+103D", "U+103E", "U+1058", "U+1059", "U+105E", "U+105F",
    "U+1060", "U+1071", "U+1072", "U+1073", "U+1074", "U+1082", "U+1085", "U+1086", "U+108D",
    "U+109D", "U+10FC", "U+135D", "U+135E", "U+135F", "U+1712", "U+1713", "U+1714", "U+1732",
    "U+1733", "U+1752", "U+1753", "U+1772", "U+1773", "U+17B4", "U+17B5", "U+17B7", "U+17B8",
    "U+17B9", "U+17BA", "U+17BB", "U+17BC", "U+17BD", "U+17C6", "U+17C9", "U+17CA", "U+17CB",
    "U+17CC", "U+17CD", "U+17CE", "U+17CF", "U+17D0", "U+17D1", "U+17D2", "U+17D3", "U+17D7",
    "U+17DD", "U+180B", "U+180C", "U+180D", "U+180E", "U+180F", "U+1843", "U+1885", "U+1886",
    "U+18A9", "U+1920", "U+1921", "U+1922", "U+1927", "U+1928", "U+1932", "U+1939", "U+193A",
    "U+193B", "U+1A17", "U+1A18", "U+1A1B", "U+1A56", "U+1A58", "U+1A59", "U+1A5A", "U+1A5B",
    "U+1A5C", "U+1A5D", "U+1A5E", "U+1A60", "U+1A62", "U+1A65", "U+1A66", "U+1A67", "U+1A68",
    "U+1A69", "U+1A6A", "U+1A6B", "U+1A6C", "U+1A73", "U+1A74", "U+1A75", "U+1A76", "U+1A77",
    "U+1A78", "U+1A79", "U+1A7A", "U+1A7B", "U+1A7C", "U+1A7F", "U+1AA7", "U+1AB0", "U+1AB1",
    "U+1AB2", "U+1AB3", "U+1AB4", "U+1AB5", "U+1AB6", "U+1AB7", "U+1AB8", "U+1AB9", "U+1ABA",
    "U+1ABB", "U+1ABC", "U+1ABD", "U+1ABE", "U+1ABF", "U+1AC0", "U+1AC1", "U+1AC2", "U+1AC3",
    "U+1AC4", "U+1AC5", "U+1AC6", "U+1AC7", "U+1AC8", "U+1AC9", "U+1ACA", "U+1ACB", "U+1ACC",
    "U+1ACD", "U+1ACE", "U+1ACF", "U+1AD0", "U+1AD1", "U+1AD2", "U+1AD3", "U+1AD4", "U+1AD5",
    "U+1AD6", "U+1AD7", "U+1AD8", "U+1AD9", "U+1ADA", "U+1ADB", "U+1ADC", "U+1ADD", "U+1AE0",
    "U+1AE1", "U+1AE2", "U+1AE3", "U+1AE4", "U+1AE5", "U+1AE6", "U+1AE7", "U+1AE8", "U+1AE9",
    "U+1AEA", "U+1AEB", "U+1B00", "U+1B01", "U+1B02", "U+1B03", "U+1B34", "U+1B36", "U+1B37",
    "U+1B38", "U+1B39", "U+1B3A", "U+1B3C", "U+1B42", "U+1B6B", "U+1B6C", "U+1B6D", "U+1B6E",
    "U+1B6F", "U+1B70", "U+1B71", "U+1B72", "U+1B73", "U+1B80", "U+1B81", "U+1BA2", "U+1BA3",
    "U+1BA4", "U+1BA5", "U+1BA8", "U+1BA9", "U+1BAB", "U+1BAC", "U+1BAD", "U+1BE6", "U+1BE8",
    "U+1BE9", "U+1BED", "U+1BEF", "U+1BF0", "U+1BF1", "U+1C2C", "U+1C2D", "U+1C2E", "U+1C2F",
    "U+1C30", "U+1C31", "U+1C32", "U+1C33", "U+1C36", "U+1C37", "U+1C78", "U+1C79", "U+1C7A",
    "U+1C7B", "U+1C7C", "U+1C7D", "U+1CD0", "U+1CD1", "U+1CD2", "U+1CD4", "U+1CD5", "U+1CD6",
    "U+1CD7", "U+1CD8", "U+1CD9", "U+1CDA", "U+1CDB", "U+1CDC", "U+1CDD", "U+1CDE", "U+1CDF",
    "U+1CE0", "U+1CE2", "U+1CE3", "U+1CE4", "U+1CE5", "U+1CE6", "U+1CE7", "U+1CE8", "U+1CED",
    "U+1CF4", "U+1CF8", "U+1CF9", "U+1D2C", "U+1D2D", "U+1D2E", "U+1D2F", "U+1D30", "U+1D31",
    "U+1D32", "U+1D33", "U+1D34", "U+1D35", "U+1D36", "U+1D37", "U+1D38", "U+1D39", "U+1D3A",
    "U+1D3B", "U+1D3C", "U+1D3D", "U+1D3E", "U+1D3F", "U+1D40", "U+1D41", "U+1D42", "U+1D43",
    "U+1D44", "U+1D45", "U+1D46", "U+1D47", "U+1D48", "U+1D49", "U+1D4A", "U+1D4B", "U+1D4C",
    "U+1D4D", "U+1D4E", "U+1D4F", "U+1D50", "U+1D51", "U+1D52", "U+1D53", "U+1D54", "U+1D55",
    "U+1D56", "U+1D57", "U+1D58", "U+1D59", "U+1D5A", "U+1D5B", "U+1D5C", "U+1D5D", "U+1D5E",
    "U+1D5F", "U+1D60", "U+1D61", "U+1D62", "U+1D63", "U+1D64", "U+1D65", "U+1D66", "U+1D67",
    "U+1D68", "U+1D69", "U+1D6A", "U+1D78", "U+1D9B", "U+1D9C", "U+1D9D", "U+1D9E", "U+1D9F",
    "U+1DA0", "U+1DA1", "U+1DA2", "U+1DA3", "U+1DA4", "U+1DA5", "U+1DA6", "U+1DA7", "U+1DA8",
    "U+1DA9", "U+1DAA", "U+1DAB", "U+1DAC", "U+1DAD", "U+1DAE", "U+1DAF", "U+1DB0", "U+1DB1",
    "U+1DB2", "U+1DB3", "U+1DB4", "U+1DB5", "U+1DB6", "U+1DB7", "U+1DB8", "U+1DB9", "U+1DBA",
    "U+1DBB", "U+1DBC", "U+1DBD", "U+1DBE", "U+1DBF", "U+1DC0", "U+1DC1", "U+1DC2", "U+1DC3",
    "U+1DC4", "U+1DC5", "U+1DC6", "U+1DC7", "U+1DC8", "U+1DC9", "U+1DCA", "U+1DCB", "U+1DCC",
    "U+1DCD", "U+1DCE", "U+1DCF", "U+1DD0", "U+1DD1", "U+1DD2", "U+1DD3", "U+1DD4", "U+1DD5",
    "U+1DD6", "U+1DD7", "U+1DD8", "U+1DD9", "U+1DDA", "U+1DDB", "U+1DDC", "U+1DDD", "U+1DDE",
    "U+1DDF", "U+1DE0", "U+1DE1", "U+1DE2", "U+1DE3", "U+1DE4", "U+1DE5", "U+1DE6", "U+1DE7",
    "U+1DE8", "U+1DE9", "U+1DEA", "U+1DEB", "U+1DEC", "U+1DED", "U+1DEE", "U+1DEF", "U+1DF0",
    "U+1DF1", "U+1DF2", "U+1DF3", "U+1DF4", "U+1DF5", "U+1DF6", "U+1DF7", "U+1DF8", "U+1DF9",
    "U+1DFA", "U+1DFB", "U+1DFC", "U+1DFD", "U+1DFE", "U+1DFF", "U+1FBD", "U+1FBF", "U+1FC0",
    "U+1FC1", "U+1FCD", "U+1FCE", "U+1FCF", "U+1FDD", "U+1FDE", "U+1FDF", "U+1FED", "U+1FEE",
    "U+1FEF", "U+1FFD", "U+1FFE", "U+200B", "U+200C", "U+200D", "U+200E", "U+200F", "U+2018",
    "U+2019", "U+2024", "U+2027", "U+202A", "U+202B", "U+202C", "U+202D", "U+202E", "U+2060",
    "U+2061", "U+2062", "U+2063", "U+2064", "U+2066", "U+2067", "U+2068", "U+2069", "U+206A",
    "U+206B", "U+206C", "U+206D", "U+206E", "U+206F", "U+2071", "U+207F", "U+2090", "U+2091",
    "U+2092", "U+2093", "U+2094", "U+2095", "U+2096", "U+2097", "U+2098", "U+2099", "U+209A",
    "U+209B", "U+209C", "U+20D0", "U+20D1", "U+20D2", "U+20D3", "U+20D4", "U+20D5", "U+20D6",
    "U+20D7", "U+20D8", "U+20D9", "U+20DA", "U+20DB", "U+20DC", "U+20DD", "U+20DE", "U+20DF",
    "U+20E0", "U+20E1", "U+20E2", "U+20E3", "U+20E4", "U+20E5", "U+20E6", "U+20E7", "U+20E8",
    "U+20E9", "U+20EA", "U+20EB", "U+20EC", "U+20ED", "U+20EE", "U+20EF", "U+20F0", "U+2C7C",
    "U+2C7D", "U+2CEF", "U+2CF0", "U+2CF1", "U+2D6F", "U+2D7F", "U+2DE0", "U+2DE1", "U+2DE2",
    "U+2DE3", "U+2DE4", "U+2DE5", "U+2DE6", "U+2DE7", "U+2DE8", "U+2DE9", "U+2DEA", "U+2DEB",
    "U+2DEC", "U+2DED", "U+2DEE", "U+2DEF", "U+2DF0", "U+2DF1", "U+2DF2", "U+2DF3", "U+2DF4",
    "U+2DF5", "U+2DF6", "U+2DF7", "U+2DF8", "U+2DF9", "U+2DFA", "U+2DFB", "U+2DFC", "U+2DFD",
    "U+2DFE", "U+2DFF", "U+2E2F", "U+3005", "U+302A", "U+302B", "U+302C", "U+302D", "U+3031",
    "U+3032", "U+3033", "U+3034", "U+3035", "U+303B", "U+3099", "U+309A", "U+309B", "U+309C",
    "U+309D", "U+309E", "U+30FC", "U+30FD", "U+30FE", "U+A015", "U+A4F8", "U+A4F9", "U+A4FA",
    "U+A4FB", "U+A4FC", "U+A4FD", "U+A60C", "U+A66F", "U+A670", "U+A671", "U+A672", "U+A674",
    "U+A675", "U+A676", "U+A677", "U+A678", "U+A679", "U+A67A", "U+A67B", "U+A67C", "U+A67D",
    "U+A67F", "U+A69C", "U+A69D", "U+A69E", "U+A69F", "U+A6F0", "U+A6F1", "U+A700", "U+A701",
    "U+A702", "U+A703", "U+A704", "U+A705", "U+A706", "U+A707", "U+A708", "U+A709", "U+A70A",
    "U+A70B", "U+A70C", "U+A70D", "U+A70E", "U+A70F", "U+A710", "U+A711", "U+A712", "U+A713",
    "U+A714", "U+A715", "U+A716", "U+A717", "U+A718", "U+A719", "U+A71A", "U+A71B", "U+A71C",
    "U+A71D", "U+A71E", "U+A71F", "U+A720", "U+A721", "U+A770", "U+A788", "U+A789", "U+A78A",
    "U+A7F1", "U+A7F2", "U+A7F3", "U+A7F4", "U+A7F8", "U+A7F9", "U+A802", "U+A806", "U+A80B",
    "U+A825", "U+A826", "U+A82C", "U+A8C4", "U+A8C5", "U+A8E0", "U+A8E1", "U+A8E2", "U+A8E3",
    "U+A8E4", "U+A8E5", "U+A8E6", "U+A8E7", "U+A8E8", "U+A8E9", "U+A8EA", "U+A8EB", "U+A8EC",
    "U+A8ED", "U+A8EE", "U+A8EF", "U+A8F0", "U+A8F1", "U+A8FF", "U+A926", "U+A927", "U+A928",
    "U+A929", "U+A92A", "U+A92B", "U+A92C", "U+A92D", "U+A947", "U+A948", "U+A949", "U+A94A",
    "U+A94B", "U+A94C", "U+A94D", "U+A94E", "U+A94F", "U+A950", "U+A951", "U+A980", "U+A981",
    "U+A982", "U+A9B3", "U+A9B6", "U+A9B7", "U+A9B8", "U+A9B9", "U+A9BC", "U+A9BD", "U+A9CF",
    "U+A9E5", "U+A9E6", "U+AA29", "U+AA2A", "U+AA2B", "U+AA2C", "U+AA2D", "U+AA2E", "U+AA31",
    "U+AA32", "U+AA35", "U+AA36", "U+AA43", "U+AA4C", "U+AA70", "U+AA7C", "U+AAB0", "U+AAB2",
    "U+AAB3", "U+AAB4", "U+AAB7", "U+AAB8", "U+AABE", "U+AABF", "U+AAC1", "U+AADD", "U+AAEC",
    "U+AAED", "U+AAF3", "U+AAF4", "U+AAF6", "U+AB5B", "U+AB5C", "U+AB5D", "U+AB5E", "U+AB5F",
    "U+AB69", "U+AB6A", "U+AB6B", "U+ABE5", "U+ABE8", "U+ABED", "U+FB1E", "U+FBB2", "U+FBB3",
    "U+FBB4", "U+FBB5", "U+FBB6", "U+FBB7", "U+FBB8", "U+FBB9", "U+FBBA", "U+FBBB", "U+FBBC",
    "U+FBBD", "U+FBBE", "U+FBBF", "U+FBC0", "U+FBC1", "U+FBC2", "U+FE00", "U+FE01", "U+FE02",
    "U+FE03", "U+FE04", "U+FE05", "U+FE06", "U+FE07", "U+FE08", "U+FE09", "U+FE0A", "U+FE0B",
    "U+FE0C", "U+FE0D", "U+FE0E", "U+FE0F", "U+FE13", "U+FE20", "U+FE21", "U+FE22", "U+FE23",
    "U+FE24", "U+FE25", "U+FE26", "U+FE27", "U+FE28", "U+FE29", "U+FE2A", "U+FE2B", "U+FE2C",
    "U+FE2D", "U+FE2E", "U+FE2F", "U+FE52", "U+FE55", "U+FEFF", "U+FF07", "U+FF0E", "U+FF1A",
    "U+FF3E", "U+FF40", "U+FF70", "U+FF9E", "U+FF9F", "U+FFE3", "U+FFF9", "U+FFFA", "U+FFFB" }

\* the characters with the property Cased that are not Case_Ignorable
CasedLetters ==
  {
    "A", "B", "C", "D", "E", "F", "G", "H", "I", "J", "K", "L", "M", "N", "O", "P", "Q", "R",
    "S", "T", "U", "V", "W", "X", "Y", "Z", "a", "b", "c", "d", "e", "f", "g", "h", "i", "j",
    "k", "l", "m", "n", "o", "p", "q", "r", "s", "t", "u", "v", "w", "x", "y", "z", "U+00AA",
    "U+00B5", "U+00BA", "U+00C0", "U+00C1", "U+00C2", "U+00C3", "U+00C4", "U+00C5", "U+00C6",
    "U+00C7", "U+00C8", "U+00C9", "U+00CA", "U+00CB", "U+00CC", "U+00CD", "U+00CE", "U+00CF",
    "U+00D0", "U+00D1", "U+00D2", "U+00D3", "U+00D4", "U+00D5", "U+00D6", "U+00D8", "U+00D9",
    "U+00DA", "U+00DB", "U+00DC", "U+00DD", "U+00DE", "U+00DF", "U+00E0", "U+00E1", "U+00E2",
    "U+00E3", "U+00E4", "U+00E5", "U+00E6", "U+00E7", "U+00E8", "U+00E9", "U+00EA", "U+00EB",
    "U+00EC", "U+00ED", "U+00EE", "U+00EF", "U+00F0", "U+00F1", "U+00F2", "U+00F3", "U+00F4",
    "U+00F5", "U+00F6", "U+00F8", "U+00F9", "U+00FA", "U+00FB", "U+00FC", "U+00FD", "U+00FE",
    "U+00FF", "U+0100", "U+0101", "U+0102", "U+0103", "U+0104", "U+0105", "U+0106", "U+0107",
    "U+0108", "U+0109", "U+010A", "U+010B", "U+010C", "U+010D", "U+010E", "U+010F", "U+0110",
    "U+0111", "U+0112", "U+0113", "U+0114", "U+0115", "U+0116", "U+0117", "U+0118", "U+0119",
    "U+011A", "U+011B", "U+011C", "U+011D", "U+011E", "U+011F", "U+0120", "U+0121", "U+0122",
    "U+0123", "U+0124", "U+0125", "U+0126", "U+0127", "U+0128", "U+0129", "U+012A", "U+012B",
    "U+012C", "U+012D", "U+012E", "U+012F", "U+0130", "U+0131", "U+0132", "U+0133", "U+0134",
    "U+0135", "U+0136", "U+0137", "U+0138", "U+0139", "U+013A", "U+013B", "U+013C", "U+013D",
    "U+013E", "U+013F", "U+0140", "U+0141", "U+0142", "U+0143", "U+0144", "U+0145", "U+0146",
    "U+0147", "U+0148", "U+0149", "U+014A", "U+014B", "U+014C", "U+014D", "U+014E", "U+014F",
    "U+0150", "U+0151", "U+0152", "U+0153", "U+0154", "U+0155", "U+0156", "U+0157", "U+0158",
    "U+0159", "U+015A", "U+015B", "U+015C", "U+015D", "U+015E", "U+015F", "U+0160", "U+0161",
    "U+0162", "U+0163", "U+0164", "U+0165", "U+0166", "U+0167", "U+0168", "U+0169", "U+016A",
    "U+016B", "U+016C", "U+016D", "U+016E", "U+016F", "U+0170", "U+0171", "U+0172", "U+0173",
    "U+0174", "U+0175", "U+0176", "U+0177", "U+0178", "U+0179", "U+017A", "U+017B", "U+017C",
    "U+017D", "U+017E", "U+017F", "U+0180", "U+0181", "U+0182", "U+0183", "U+0184", "U+0185",
    "U+0186", "U+0187", "U+0188", "U+0189", "U+018A", "U+018B", "U+018C", "U+018D", "U+018E",
    "U+018F", "U+0190", "U+0191", "U+0192", "U+0193", "U+0194", "U+0195", "U+0196", "U+0197",
    "U+0198", "U+0199", "U+019A", "U+019B", "U+019C", "U+019D", "U+019E", "U+019F", "U+01A0",
    "U+01A1", "U+01A2", "U+01A3", "U+01A4", "U+01A5", "U+01A6", "U+01A7", "U+01A8", "U+01A9",
    "U+01AA", "U+01AB", "U+01AC", "U+01AD", "U+01AE", "U+01AF", "U+01B0", "U+01B1", "U+01B2",
    "U+01B3", "U+01B4", "U+01B5", "U+01B6", "U+01B7", "U+01B8", "U+01B9", "U+01BA", "U+01BC",
    "U+01BD", "U+01BE", "U+01BF", "U+01C4", "U+01C5", "U+01C6", "U+01C7", "U+01C8", "U+01C9",
    "U+01CA", "U+01CB", "U+01CC", "U+01CD", "U+01CE", "U+01CF", "U+01D0", "U+01D1", "U+01D2",
    "U+01D3", "U+01D4", "U+01D5", "U+01D6", "U+01D7", "U+01D8", "U+01D9", "U+01DA", "U+01DB",
    "U+01DC", "U+01DD", "U+01DE", "U+01DF", "U+01E0", "U+01E1", "U+01E2", "U+01E3", "U+01E4",
    "U+01E5", "U+01E6", "U+01E7", "U+01E8", "U+01E9", "U+01EA", "U+01EB", "U+01EC", "U+01ED",
    "U+01EE", "U+01EF", "U+01F0", "U+01F1", "U+01F2", "U+01F3", "U+01F4", "U+01F5", "U+01F6",
    "U+01F7", "U+01F8", "U+01F9", "U+01FA", "U+01FB", "U+01FC", "U+01FD", "U+01FE", "U+01FF",
    "U+0200", "U+0201", "U+0202", "U+0203", "U+0204", "U+0205", "U+0206", "U+0207", "U+0208",
    "U+0209", "U+020A", "U+020B", "U+020C", "U+020D", "U+020E", "U+020F", "U+0210", "U+0211",
    "U+0212", "U+0213", "U+0214", "U+0215", "U+0216", "U+0217", "U+0218", "U+0219", "U+021A",
    "U+021B", "U+021C", "U+021D", "U+021E", "U+021F", "U+0220", "U+0221", "U+0222", "U+0223",
    "U+0224", "U+0225", "U+0226", "U+0227", "U+0228", "U+0229", "U+022A", "U+022B", "U+022C",
    "U+022D", "U+022E", "U+022F", "U+0230", "U+0231", "U+0232", "U+0233", "U+0234", "U+0235",
    "U+0236", "U+0237", "U+0238", "U+0239", "U+023A", "U+023B", "U+023C", "U+023D", "U+023E",
    "U+023F", "U+0240", "U+0241", "U+0242", "U+0243", "U+0244", "U+0245", "U+0246", "U+0247",
    "U+0248", "U+0249", "U+024A", "U+024B", "U+024C", "U+024D", "U+024E", "U+024F", "U+0250",
    "U+0251", "U+0252", "U+0253", "U+0254", "U+0255", "U+0256", "U+0257", "U+0258", "U+0259",
    "U+025A", "U+025B", "U+025C", "U+025D", "U+025E", "U+025F", "U+0260", "U+0261", "U+0262",
    "U+0263", "U+0264", "U+0265", "U+0266", "U+0267", "U+0268", "U+0269", "U+026A", "U+026B",
    "U+026C", "U+026D", "U+026E", "U+026F", "U+0270", "U+0271", "U+0272", "U+0273", "U+0274",
    "U+0275", "U+0276", "U+0277", "U+0278", "U+0279", "U+027A", "U+027B", "U+027C", "U+027D",
    "U+027E", "U+027F", "U+0280", "U+0281", "U+0282", "U+0283", "U+0284", "U+0285", "U+0286",
    "U+0287", "U+0288", "U+0289", "U+028A", "U+028B", "U+028C", "U+028D", "U+028E", "U+028F",
    "U+0290", "U+0291", "U+0292", "U+0293", "U+0296", "U+0297", "U+0298", "U+0299", "U+029A",
    "U+029B", "U+029C", "U+029D", "U+029E", "U+029F", "U+02A0", "U+02A1", "U+02A2", "U+02A3",
    "U+02A4", "U+02A5", "U+02A6", "U+02A7", "U+02A8", "U+02A9", "U+02AA", "U+02AB", "U+02AC",
    "U+02AD", "U+02AE", "U+02AF", "U+0370", "U+0371", "U+0372", "U+0373", "U+0376", "U+0377",
    "U+037B", "U+037C", "U+037D", "U+037F", "U+0386", "U+0388", "U+0389", "U+038A", "U+038C",
    "U+038E", "U+038F", "U+0390", "U+0391", "U+0392", "U+0393", "U+0394", "U+0395", "U+0396",
    "U+0397", "U+0398", "U+0399", "U+039A", "U+039B", "U+039C", "U+039D", "U+039E", "U+039F",
    "U+03A0", "U+03A1", "U+03A3", "U+03A4", "U+03A5", "U+03A6", "U+03A7", "U+03A8", "U+03A9",
    "U+03AA", "U+03AB", "U+03AC", "U+03AD", "U+03AE", "U+03AF", "U+03B0", "U+03B1", "U+03B2",
    "U+03B3", "U+03B4", "U+03B5", "U+03B6", "U+03B7", "U+03B8", "U+03B9", "U+03BA", "U+03BB",
    "U+03BC", "U+03BD", "U+03BE", "U+03BF", "U+03C0", "U+03C1", "U+03C2", "U+03C3", "U+03C4",
    "U+03C5", "U+03C6", "U+03C7", "U+03C8", "U+03C9", "U+03CA", "U+03CB", "U+03CC", "U+03CD",
    "U+03CE", "U+03CF", "U+03D0", "U+03D1", "U+03D2", "U+03D3", "U+03D4", "U+03D5", "U+03D6",
    "U+03D7", "U+03D8", "U+03D9", "U+03DA", "U+03DB", "U+03DC", "U+03DD", "U+03DE", "U+03DF",
    "U+03E0", "U+03E1", "U+03E2", "U+03E3", "U+03E4", "U+03E5", "U+03E6", "U+03E7", "U+03E8",
    "U+03E9", "U+03EA", "U+03EB", "U+03EC", "U+03ED", "U+03EE", "U+03EF", "U+03F0", "U+03F1",
    "U+03F2", "U+03F3", "U+03F4", "U+03F5", "U+03F7", "U+03F8", "U+03F9", "U+03FA", "U+03FB",
    "U+03FC", "U+03FD", "U+03FE", "U+03FF", "U+0400", "U+0401", "U+0402", "U+0403", "U+0404",
    "U+0405", "U+0406", "U+0407", "U+0408", "U+0409", "U+040A", "U+040B", "U+040C", "U+040D",
    "U+040E", "U+040F", "U+0410", "U+0411", "U+0412", "U+0413", "U+0414", "U+0415", "U+0416",
    "U+0417", "U+0418", "U+0419", "U+041A", "U+041B", "U+041C", "U+041D", "U+041E", "U+041F",
    "U+0420", "U+0421", "U+0422", "U+0423", "U+0424", "U+0425", "U+0426", "U+0427", "U+0428",
    "U+0429", "U+042A", "U+042B", "U+042C", "U+042D", "U+042E", "U+042F", "U+0430", "U+0431",
    "U+0432", "U+0433", "U+0434", "U+0435", "U+0436", "U+0437", "U+0438", "U+0439", "U+043A",
    "U+043B", "U+043C", "U+043D", "U+043E", "U+043F", "U+0440", "U+0441", "U+0442", "U+0443",
    "U+0444", "U+0445", "U+0446", "U+0447", "U+0448", "U+0449", "U+044A", "U+044B", "U+044C",
    "U+044D", "U+044E", "U+044F", "U+0450", "U+0451", "U+0452", "U+0453", "U+0454", "U+0455",
    "U+0456", "U+0457", "U+0458", "U+0459", "U+045A", "U+045B", "U+045C", "U+045D", "U+045E",
    "U+045F", "U+0460", "U+0461", "U+0462", "U+0463", "U+0464", "U+0465", "U+0466", "U+0467",
    "U+0468", "U+0469", "U+046A", "U+046B", "U+046C", "U+046D", "U+046E", "U+046F", "U+0470",
    "U+0471", "U+0472", "U+0473", "U+0474", "U+0475", "U+0476", "U+0477", "U+0478", "U+0479",
    "U+047A", "U+047B", "U+047C", "U+047D", "U+047E", "U+047F", "U+0480", "U+0481", "U+048A",
    "U+048B", "U+048C", "U+048D", "U+048E", "U+048F", "U+0490", "U+0491", "U+0492", "U+0493",
    "U+0494", "U+0495", "U+0496", "U+0497", "U+0498", "U+0499", "U+049A", "U+049B", "U+049C",
    "U+049D", "U+049E", "U+049F", "U+04A0", "U+04A1", "U+04A2", "U+04A3", "U+04A4", "U+04A5",
    "U+04A6", "U+04A7", "U+04A8", "U+04A9", "U+04AA", "U+04AB", "U+04AC", "U+04AD", "U+04AE",
    "U+04AF", "U+04B0", "U+04B1", "U+04B2", "U+04B3", "U+04B4", "U+04B5", "U+04B6", "U+04B7",
    "U+04B8", "U+04B9", "U+04BA", "U+04BB", "U+04BC", "U+04BD", "U+04BE", "U+04BF", "U+04C0",
    "U+04C1", "U+04C2", "U+04C3", "U+04C4", "U+04C5", "U+04C6", "U+04C7", "U+04C8", "U+04C9",
    "U+04CA", "U+04CB", "U+04CC", "U+04CD", "U+04CE", "U+04CF", "U+04D0", "U+04D1", "U+04D2",
    "U+04D3", "U+04D4", "U+04D5", "U+04D6", "U+04D7", "U+04D8", "U+04D9", "U+04DA", "U+04DB",
    "U+04DC", "U+04DD", "U+04DE", "U+04DF", "U+04E0", "U+04E1", "U+04E2", "U+04E3", "U+04E4",
    "U+04E5", "U+04E6", "U+04E7", "U+04E8", "U+04E9", "U+04EA", "U+04EB", "U+04EC", "U+04ED",
    "U+04EE", "U+04EF", "U+04F0", "U+04F1", "U+04F2", "U+04F3", "U+04F4", "U+04F5", "U+04F6",
    "U+04F7", "U+04F8", "U+04F9", "U+04FA", "U+04FB", "U+04FC", "U+04FD", "U+04FE", "U+04FF",
    "U+0500", "U+0501", "U+0502", "U+0503", "U+0504", "U+0505", "U+0506", "U+0507", "U+0508",
    "U+0509", "U+050A", "U+050B", "U+050C", "U+050D", "U+050E", "U+050F", "U+0510", "U+0511",
    "U+0512", "U+0513", "U+0514", "U+0515", "U+0516", "U+0517", "U+0518", "U+0519", "U+051A",
    "U+051B", "U+051C", "U+051D", "U+051E", "U+051F", "U+0520", "U+0521", "U+0522", "U+0523",
    "U+0524", "U+0525", "U+0526", "U+0527", "U+0528", "U+0529", "U+052A", "U+052B", "U+052C",
    "U+052D", "U+052E", "U+052F", "U+0531", "U+0532", "U+0533", "U+0534", "U+0535", "U+0536",
    "U+0537", "U+0538", "U+0539", "U+053A", "U+053B", "U+053C", "U+053D", "U+053E", "U+053F",
    "U+0540", "U+0541", "U+0542", "U+0543", "U+0544", "U+0545", "U+0546", "U+0547", "U+0548",
    "U+0549", "U+054A", "U+054B", "U+054C", "U+054D", "U+054E", "U+054F", "U+0550", "U+0551",
    "U+0552", "U+0553", "U+0554", "U+0555", "U+0556", "U+0560", "U+0561", "U+0562", "U+0563",
    "U+0564", "U+0565", "U+0566", "U+0567", "U+0568", "U+0569", "U+056A", "U+056B", "U+056C",
    "U+056D", "U+056E", "U+056F", "U+0570", "U+0571", "U+0572", "U+0573", "U+0574", "U+0575",
    "U+0576", "U+0577", "U+0578", "U+0579", "U+057A", "U+057B", "U+057C", "U+057D", "U+057E",
    "U+057F", "U+0580", "U+0581", "U+0582", "U+0583", "U+0584", "U+0585", "U+0586", "U+0587",
    "U+0588", "U+10A0", "U+10A1", "U+10A2", "U+10A3", "U+10A4", "U+10A5", "U+10A6", "U+10A7",
    "U+10A8", "U+10A9", "U+10AA", "U+10AB", "U+10AC", "U+10AD", "U+10AE", "U+10AF", "U+10B0",
    "U+10B1", "U+10B2", "U+10B3", "U+10B4", "U+10B5", "U+10B6", "U+10B7", "U+10B8", "U+10B9",
    "U+10BA", "U+10BB", "U+10BC", "U+10BD", "U+10BE", "U+10BF", "U+10C0", "U+10C1", "U+10C2",
    "U+10C3", "U+10C4", "U+10C5", "U+10C7", "U+10CD", "U+10D0", "U+10D1", "U+10D2", "U+10D3",
    "U+10D4", "U+10D5", "U+10D6", "U+10D7", "U+10D8", "U+10D9", "U+10DA", "U+10DB", "U+10DC",
    "U+10DD", "U+10DE", "U+10DF", "U+10E0", "U+10E1", "U+10E2", "U+10E3", "U+10E4", "U+10E5",
    "U+10E6", "U+10E7", "U+10E8", "U+10E9", "U+10EA", "U+10EB", "U+10EC", "U+10ED", "U+10EE",
    "U+10EF", "U+10F0", "U+10F1", "U+10F2", "U+10F3", "U+10F4", "U+10F5", "U+10F6", "U+10F7",
    "U+10F8", "U+10F9", "U+10FA", "U+10FD", "U+10FE", "U+10FF", "U+13A0", "U+13A1", "U+13A2",
    "U+13A3", "U+13A4", "U+13A5", "U+13A6", "U+13A7", "U+13A8", "U+13A9", "U+13AA", "U+13AB",
    "U+13AC", "U+13AD", "U+13AE", "U+13AF", "U+13B0", "U+13B1", "U+13B2", "U+13B3", "U+13B4",
    "U+13B5", "U+13B6", "U+13B7", "U+13B8", "U+13B9", "U+13BA", "U+13BB", "U+13BC", "U+13BD",
    "U+13BE", "U+13BF", "U+13C0", "U+13C1", "U+13C2", "U+13C3", "U+13C4", "U+13C5", "U+13C6",
    "U+13C7", "U+13C8", "U+13C9", "U+13CA", "U+13CB", "U+13CC", "U+13CD", "U+13CE", "U+13CF",
    "U+13D0", "U+13D1", "U+13D2", "U+13D3", "U+13D4", "U+13D5", "U+13D6", "U+13D7", "U+13D8",
    "U+13D9", "U+13DA", "U+13DB", "U+13DC", "U+13DD", "U+13DE", "U+13DF", "U+13E0", "U+13E1",
    "U+13E2", "U+13E3", "U+13E4", "U+13E5", "U+13E6", "U+13E7", "U+13E8", "U+13E9", "U+13EA",
    "U+13EB", "U+13EC", "U+13ED", "U+13EE", "U+13EF", "U+13F0", "U+13F1", "U+13F2", "U+13F3",
    "U+13F4", "U+13F5", "U+13F8", "U+13F9", "U+13FA", "U+13FB", "U+13FC", "U+13FD", "U+1C80",
    "U+1C81", "U+1C82", "U+1C83", "U+1C84", "U+1C85", "U+1C86", "U+1C87", "U+1C88", "U+1C89",
    "U+1C8A", "U+1C90", "U+1C91", "U+1C92", "U+1C93", "U+1C94", "U+1C95", "U+1C96", "U+1C97",
    "U+1C98", "U+1C99", "U+1C9A", "U+1C9B", "U+1C9C", "U+1C9D", "U+1C9E", "U+1C9F", "U+1CA0",
    "U+1CA1", "U+1CA2", "U+1CA3", "U+1CA4", "U+1CA5", "U+1CA6", "U+1CA7", "U+1CA8", "U+1CA9",
    "U+1CAA", "U+1CAB", "U+1CAC", "U+1CAD", "U+1CAE", "U+1CAF", "U+1CB0", "U+1CB1", "U+1CB2",
    "U+1CB3", "U+1CB4", "U+1CB5", "U+1CB6", "U+1CB7", "U+1CB8", "U+1CB9", "U+1CBA", "U+1CBD",
    "U+1CBE", "U+1CBF", "U+1D00", "U+1D01", "U+1D02", "U+1D03", "U+1D04", "U+1D05", "U+1D06",
    "U+1D07", "U+1D08", "U+1D09", "U+1D0A", "U+1D0B", "U+1D0C", "U+1D0D", "U+1D0E", "U+1D0F",
    "U+1D10", "U+1D11", "U+1D12", "U+1D13", "U+1D14", "U+1D15", "U+1D16", "U+1D17", "U+1D18",
    "U+1D19", "U+1D1A", "U+1D1B", "U+1D1C", "U+1D1D", "U+1D1E", "U+1D1F", "U+1D20", "U+1D21",
    "U+1D22", "U+1D23", "U+1D24", "U+1D25", "U+1D26", "U+1D27", "U+1D28", "U+1D29", "U+1D2A",
    "U+1D2B", "U+1D6B", "U+1D6C", "U+1D6D", "U+1D6E", "U+1D6F", "U+1D70", "U+1D71", "U+1D72",
    "U+1D73", "U+1D74", "U+1D75", "U+1D76", "U+1D77", "U+1D79", "U+1D7A", "U+1D7B", "U+1D7C",
    "U+1D7D", "U+1D7E", "U+1D7F", "U+1D80", "U+1D81", "U+1D82", "U+1D83", "U+1D84", "U+1D85",
    "U+1D86", "U+1D87", "U+1D88", "U+1D89", "U+1D8A", "U+1D8B", "U+1D8C", "U+1D8D", "U+1D8E",
    "U+1D8F", "U+1D90", "U+1D91", "U+1D92", "U+1D93", "U+1D94", "U+1D95", "U+1D96", "U+1D97",
    "U+1D98", "U+1D99", "U+1D9A", "U+1E00", "U+1E01", "U+1E02", "U+1E03", "U+1E04", "U+1E05",
    "U+1E06", "U+1E07", "U+1E08", "U+1E09", "U+1E0A", "U+1E0B", "U+1E0C", "U+1E0D", "U+1E0E",
    "U+1E0F", "U+1E10", "U+1E11", "U+1E12", "U+1E13", "U+1E14", "U+1E15", "U+1E16", "U+1E17",
    "U+1E18", "U+1E19", "U+1E1A", "U+1E1B", "U+1E1C", "U+1E1D", "U+1E1E", "U+1E1F", "U+1E20",
    "U+1E21", "U+1E22", "U+1E23", "U+1E24", "U+1E25", "U+1E26", "U+1E27", "U+1E28", "U+1E29",
    "U+1E2A", "U+1E2B", "U+1E2C", "U+1E2D", "U+1E2E", "U+1E2F", "U+1E30", "U+1E31", "U+1E32",
    "U+1E33", "U+1E34", "U+1E35", "U+1E36", "U+1E37", "U+1E38", "U+1E39", "U+1E3A", "U+1E3B",
    "U+1E3C", "U+1E3D", "U+1E3E", "U+1E3F", "U+1E40", "U+1E41", "U+1E42", "U+1E43", "U+1E44",
    "U+1E45", "U+1E46", "U+1E47", "U+1E48", "U+1E49", "U+1E4A", "U+1E4B", "U+1E4C", "U+1E4D",
    "U+1E4E", "U+1E4F", "U+1E50", "U+1E51", "U+1E52", "U+1E53", "U+1E54", "U+1E55", "U+1E56",
    "U+1E57", "U+1E58", "U+1E59", "U+1E5A", "U+1E5B", "U+1E5C", "U+1E5D", "U+1E5E", "U+1E5F",
    "U+1E60", "U+1E61", "U+1E62", "U+1E63", "U+1E64", "U+1E65", "U+1E66", "U+1E67", "U+1E68",
    "U+1E69", "U+1E6A", "U+1E6B", "U+1E6C", "U+1E6D", "U+1E6E", "U+1E6F", "U+1E70", "U+1E71",
    "U+1E72", "U+1E73", "U+1E74", "U+1E75", "U+1E76", "U+1E77", "U+1E78", "U+1E79", "U+1E7A",
    "U+1E7B", "U+1E7C", "U+1E7D", "U+1E7E", "U+1E7F", "U+1E80", "U+1E81", "U+1E82", "U+1E83",
    "U+1E84", "U+1E85", "U+1E86", "U+1E87", "U+1E88", "U+1E89", "U+1E8A", "U+1E8B", "U+1E8C",
    "U+1E8D", "U+1E8E", "U+1E8F", "U+1E90", "U+1E91", "U+1E92", "U+1E93", "U+1E94", "U+1E95",
    "U+1E96", "U+1E97", "U+1E98", "U+1E99", "U+1E9A", "U+1E9B", "U+1E9C", "U+1E9D", "U+1E9E",
    "U+1E9F", "U+1EA0", "U+1EA1", "U+1EA2", "U+1EA3", "U+1EA4", "U+1EA5", "U+1EA6", "U+1EA7",
    "U+1EA8", "U+1EA9", "U+1EAA", "U+1EAB", "U+1EAC", "U+1EAD", "U+1EAE", "U+1EAF", "U+1EB0",
    "U+1EB1", "U+1EB2", "U+1EB3", "U+1EB4", "U+1EB5", "U+1EB6", "U+1EB7", "U+1EB8", "U+1EB9",
    "U+1EBA", "U+1EBB", "U+1EBC", "U+1EBD", "U+1EBE", "U+1EBF", "U+1EC0", "U+1EC1", "U+1EC2",
    "U+1EC3", "U+1EC4", "U+1EC5", "U+1EC6", "U+1EC7", "U+1EC8", "U+1EC9", "U+1ECA", "U+1ECB",
    "U+1ECC", "U+1ECD", "U+1ECE", "U+1ECF", "U+1ED0", "U+1ED1", "U+1ED2", "U+1ED3", "U+1ED4",
    "U+1ED5", "U+1ED6", "U+1ED7", "U+1ED8", "U+1ED9", "U+1EDA", "U+1EDB", "U+1EDC", "U+1EDD",
    "U+1EDE", "U+1EDF", "U+1EE0", "U+1EE1", "U+1EE2", "U+1EE3", "U+1EE4", "U+1EE5", "U+1EE6",
    "U+1EE7", "U+1EE8", "U+1EE9", "U+1EEA", "U+1EEB", "U+1EEC", "U+1EED", "U+1EEE", "U+1EEF",
    "U+1EF0", "U+1EF1", "U+1EF2", "U+1EF3", "U+1EF4", "U+1EF5", "U+1EF6", "U+1EF7", "U+1EF8",
    "U+1EF9", "U+1EFA", "U+1EFB", "U+1EFC", "U+1EFD", "U+1EFE", "U+1EFF", "U+1F00", "U+1F01",
    "U+1F02", "U+1F03", "U+1F04", "U+1F05", "U+1F06", "U+1F07", "U+1F08", "U+1F09", "U+1F0A",
    "U+1F0B", "U+1F0C", "U+1F0D", "U+1F0E", "U+1F0F", "U+1F10", "U+1F11", "U+1F12", "U+1F13",
    "U+1F14", "U+1F15", "U+1F18", "U+1F19", "U+1F1A", "U+1F1B", "U+1F1C", "U+1F1D", "U+1F20",
    "U+1F21", "U+1F22", "U+1F23", "U+1F24", "U+1F25", "U+1F26", "U+1F27", "U+1F28", "U+1F29",
    "U+1F2A", "U+1F2B", "U+1F2C", "U+1F2D", "U+1F2E", "U+1F2F", "U+1F30", "U+1F31", "U+1F32",
    "U+1F33", "U+1F34", "U+1F35", "U+1F36", "U+1F37", "U+1F38", "U+1F39", "U+1F3A", "U+1F3B",
    "U+1F3C", "U+1F3D", "U+1F3E", "U+1F3F", "U+1F40", "U+1F41", "U+1F42", "U+1F43", "U+1F44",
    "U+1F45", "U+1F48", "U+1F49", "U+1F4A", "U+1F4B", "U+1F4C", "U+1F4D", "U+1F50", "U+1F51",
    "U+1F52", "U+1F53", "U+1F54", "U+1F55", "U+1F56", "U+1F57", "U+1F59", "U+1F5B", "U+1F5D",
    "U+1F5F", "U+1F60", "U+1F61", "U+1F62", "U+1F63", "U+1F64", "U+1F65", "U+1F66", "U+1F67",
    "U+1F68", "U+1F69", "U+1F6A", "U+1F6B", "U+1F6C", "U+1F6D", "U+1F6E", "U+1F6F", "U+1F70",
    "U+1F71", "U+1F72", "U+1F73", "U+1F74", "U+1F75", "U+1F76", "U+1F77", "U+1F78", "U+1F79",
    "U+1F7A", "U+1F7B", "U+1F7C", "U+1F7D", "U+1F80", "U+1F81", "U+1F82", "U+1F83", "U+1F84",
    "U+1F85", "U+1F86", "U+1F87", "U+1F88", "U+1F89", "U+1F8A", "U+1F8B", "U+1F8C", "U+1F8D",
    "U+1F8E", "U+1F8F", "U+1F90", "U+1F91", "U+1F92", "U+1F93", "U+1F94", "U+1F95", "U+1F96",
    "U+1F97", "U+1F98", "U+1F99", "U+1F9A", "U+1F9B", "U+1F9C", "U+1F9D", "U+1F9E", "U+1F9F",
    "U+1FA0", "U+1FA1", "U+1FA2", "U+1FA3", "U+1FA4", "U+1FA5", "U+1FA6", "U+1FA7", "U+1FA8",
    "U+1FA9", "U+1FAA", "U+1FAB", "U+1FAC", "U+1FAD", "U+1FAE", "U+1FAF", "U+1FB0", "U+1FB1",
    "U+1FB2", "U+1FB3", "U+1FB4", "U+1FB6", "U+1FB7", "U+1FB8", "U+1FB9", "U+1FBA", "U+1FBB",
    "U+1FBC", "U+1FBE", "U+1FC2", "U+1FC3", "U+1FC4", "U+1FC6", "U+1FC7", "U+1FC8", "U+1FC9",
    "U+1FCA", "U+1FCB", "U+1FCC", "U+1FD0", "U+1FD1", "U+1FD2", "U+1FD3", "U+1FD6", "U+1FD7",
    "U+1FD8", "U+1FD9", "U+1FDA", "U+1FDB", "U+1FE0", "U+1FE1", "U+1FE2", "U+1FE3", "U+1FE4",
    "U+1FE5", "U+1FE6", "U+1FE7", "U+1FE8", "U+1FE9", "U+1FEA", "U+1FEB", "U+1FEC", "U+1FF2",
    "U+1FF3", "U+1FF4", "U+1FF6", "U+1FF7", "U+1FF8", "U+1FF9", "U+1FFA", "U+1FFB", "U+1FFC",
    "U+2102", "U+2107", "U+210A", "U+210B", "U+210C", "U+210D", "U+210E", "U+210F", "U+2110",
    "U+2111", "U+2112", "U+2113", "U+2115", "U+2119", "U+211A", "U+211B", "U+211C", "U+211D",
    "U+2124", "U+2126", "U+2128", "U+212A", "U+212B", "U+212C", "U+212D", "U+212F", "U+2130",
    "U+2131", "U+2132", "U+2133", "U+2134", "U+2139", "U+213C", "U+213D", "U+213E", "U+213F",
    "U+2145", "U+2146", "U+2147", "U+2148", "U+2149", "U+214E", "U+2160", "U+2161", "U+2162",
    "U+2163", "U+2164", "U+2165", "U+2166", "U+2167", "U+2168", "U+2169", "U+216A", "U+216B",
    "U+216C", "U+216D", "U+216E", "U+216F", "U+2170", "U+2171", "U+2172", "U+2173", "U+2174",
    "U+2175", "U+2176", "U+2177", "U+2178", "U+2179", "U+217A", "U+217B", "U+217C", "U+217D",
    "U+217E", "U+217F", "U+2183", "U+2184", "U+24B6", "U+24B7", "U+24B8", "U+24B9", "U+24BA",
    "U+24BB", "U+24BC", "U+24BD", "U+24BE", "U+24BF", "U+24C0", "U+24C1", "U+24C2", "U+24C3",
    "U+24C4", "U+24C5", "U+24C6", "U+24C7", "U+24C8", "U+24C9", "U+24CA", "U+24CB", "U+24CC",
    "U+24CD", "U+24CE", "U+24CF", "U+24D0", "U+24D1", "U+24D2", "U+24D3", "U+24D4", "U+24D5",
    "U+24D6", "U+24D7", "U+24D8", "U+24D9", "U+24DA", "U+24DB", "U+24DC", "U+24DD", "U+24DE",
    "U+24DF", "U+24E0", "U+24E1", "U+24E2", "U+24E3", "U+24E4", "U+24E5", "U+24E6", "U+24E7",
    "U+24E8", "U+24E9", "U+2C00", "U+2C01", "U+2C02", "U+2C03", "U+2C04", "U+2C05", "U+2C06",
    "U+2C07", "U+2C08", "U+2C09", "U+2C0A", "U+2C0B", "U+2C0C", "U+2C0D", "U+2C0E", "U+2C0F",
    "U+2C10", "U+2C11", "U+2C12", "U+2C13", "U+2C14", "U+2C15", "U+2C16", "U+2C17", "U+2C18",
    "U+2C19", "U+2C1A", "U+2C1B", "U+2C1C", "U+2C1D", "U+2C1E", "U+2C1F", "U+2C20", "U+2C21",
    "U+2C22", "U+2C23", "U+2C24", "U+2C25", "U+2C26", "U+2C27", "U+2C28", "U+2C29", "U+2C2A",
    "U+2C2B", "U+2C2C", "U+2C2D", "U+2C2E", "U+2C2F", "U+2C30", "U+2C31", "U+2C32", "U+2C33",
    "U+2C34", "U+2C35", "U+2C36", "U+2C37", "U+2C38", "U+2C39", "U+2C3A", "U+2C3B", "U+2C3C",
    "U+2C3D", "U+2C3E", "U+2C3F", "U+2C40", "U+2C41", "U+2C42", "U+2C43", "U+2C44", "U+2C45",
    "U+2C46", "U+2C47", "U+2C48", "U+2C49", "U+2C4A", "U+2C4B", "U+2C4C", "U+2C4D", "U+2C4E",
    "U+2C4F", "U+2C50", "U+2C51", "U+2C52", "U+2C53", "U+2C54", "U+2C55", "U+2C56", "U+2C57",
    "U+2C58", "U+2C59", "U+2C5A", "U+2C5B", "U+2C5C", "U+2C5D", "U+2C5E", "U+2C5F", "U+2C60",
    "U+2C61", "U+2C62", "U+2C63", "U+2C64", "U+2C65", "U+2C66", "U+2C67", "U+2C68", "U+2C69",
    "U+2C6A", "U+2C6B", "U+2C6C", "U+2C6D", "U+2C6E", "U+2C6F", "U+2C70", "U+2C71", "U+2C72",
    "U+2C73", "U+2C74", "U+2C75", "U+2C76", "U+2C77", "U+2C78", "U+2C79", "U+2C7A", "U+2C7B",
    "U+2C7E", "U+2C7F", "U+2C80", "U+2C81", "U+2C82", "U+2C83", "U+2C84", "U+2C85", "U+2C86",
    "U+2C87", "U+2C88", "U+2C89", "U+2C8A", "U+2C8B", "U+2C8C", "U+2C8D", "U+2C8E", "U+2C8F",
    "U+2C90", "U+2C91", "U+2C92", "U+2C93", "U+2C94", "U+2C95", "U+2C96", "U+2C97", "U+2C98",
    "U+2C99", "U+2C9A", "U+2C9B", "U+2C9C", "U+2C9D", "U+2C9E", "U+2C9F", "U+2CA0", "U+2CA1",
    "U+2CA2", "U+2CA3", "U+2CA4", "U+2CA5", "U+2CA6", "U+2CA7", "U+2CA8", "U+2CA9", "U+2CAA",
    "U+2CAB", "U+2CAC", "U+2CAD", "U+2CAE", "U+2CAF", "U+2CB0", "U+2CB1", "U+2CB2", "U+2CB3",
    "U+2CB4", "U+2CB5", "U+2CB6", "U+2CB7", "U+2CB8", "U+2CB9", "U+2CBA", "U+2CBB", "U+2CBC",
    "U+2CBD", "U+2CBE", "U+2CBF", "U+2CC0", "U+2CC1", "U+2CC2", "U+2CC3", "U+2CC4", "U+2CC5",
    "U+2CC6", "U+2CC7", "U+2CC8", "U+2CC9", "U+2CCA", "U+2CCB", "U+2CCC", "U+2CCD", "U+2CCE",
    "U+2CCF", "U+2CD0", "U+2CD1", "U+2CD2", "U+2CD3", "U+2CD4", "U+2CD5", "U+2CD6", "U+2CD7",
    "U+2CD8", "U+2CD9", "U+2CDA", "U+2CDB", "U+2CDC", "U+2CDD", "U+2CDE", "U+2CDF", "U+2CE0",
    "U+2CE1", "U+2CE2", "U+2CE3", "U+2CE4", "U+2CEB", "U+2CEC", "U+2CED", "U+2CEE", "U+2CF2",
    "U+2CF3", "U+2D00", "U+2D01", "U+2D02", "U+2D03", "U+2D04", "U+2D05", "U+2D06", "U+2D07",
    "U+2D08", "U+2D09", "U+2D0A", "U+2D0B", "U+2D0C", "U+2D0D", "U+2D0E", "U+2D0F", "U+2D10",
    "U+2D11", "U+2D12", "U+2D13", "U+2D14", "U+2D15", "U+2D16", "U+2D17", "U+2D18", "U+2D19",
    "U+2D1A", "U+2D1B", "U+2D1C", "U+2D1D", "U+2D1E", "U+2D1F", "U+2D20", "U+2D21", "U+2D22",
    "U+2D23", "U+2D24", "U+2D25", "U+2D27", "U+2D2D", "U+A640", "U+A641", "U+A642", "U+A643",
    "U+A644", "U+A645", "U+A646", "U+A647", "U+A648", "U+A649", "U+A64A", "U+A64B", "U+A64C",
    "U+A64D", "U+A64E", "U+A64F", "U+A650", "U+A651", "U+A652", "U+A653", "U+A654", "U+A655",
    "U+A656", "U+A657", "U+A658", "U+A659", "U+A65A", "U+A65B", "U+A65C", "U+A65D", "U+A65E",
    "U+A65F", "U+A660", "U+A661", "U+A662", "U+A663", "U+A664", "U+A665", "U+A666", "U+A667",
    "U+A668", "U+A669", "U+A66A", "U+A66B", "U+A66C", "U+A66D", "U+A680", "U+A681", "U+A682",
    "U+A683", "U+A684", "U+A685", "U+A686", "U+A687", "U+A688", "U+A689", "U+A68A", "U+A68B",
    "U+A68C", "U+A68D", "U+A68E", "U+A68F", "U+A690", "U+A691", "U+A692", "U+A693", "U+A694",
    "U+A695", "U+A696", "U+A697", "U+A698", "U+A699", "U+A69A", "U+A69B", "U+A722", "U+A723",
    "U+A724", "U+A725", "U+A726", "U+A727", "U+A728", "U+A729", "U+A72A", "U+A72B", "U+A72C",
    "U+A72D", "U+A72E", "U+A72F", "U+A730", "U+A731", "U+A732", "U+A733", "U+A734", "U+A735",
    "U+A736", "U+A737", "U+A738", "U+A739", "U+A73A", "U+A73B", "U+A73C", "U+A73D", "U+A73E",
    "U+A73F", "U+A740", "U+A741", "U+A742", "U+A743", "U+A744", "U+A745", "U+A746", "U+A747",
    "U+A748", "U+A749", "U+A74A", "U+A74B", "U+A74C", "U+A74D", "U+A74E", "U+A74F", "U+A750",
    "U+A751", "U+A752", "U+A753", "U+A754", "U+A755", "U+A756", "U+A757", "U+A758", "U+A759",
    "U+A75A", "U+A75B", "U+A75C", "U+A75D", "U+A75E", "U+A75F", "U+A760", "U+A761", "U+A762",
    "U+A763", "U+A764", "U+A765", "U+A766", "U+A767", "U+A768", "U+A769", "U+A76A", "U+A76B",
    "U+A76C", "U+A76D", "U+A76E", "U+A76F", "U+A771", "U+A772", "U+A773", "U+A774", "U+A775",
    "U+A776", "U+A777", "U+A778", "U+A779", "U+A77A", "U+A77B", "U+A77C", "U+A77D", "U+A77E",
    "U+A77F", "U+A780", "U+A781", "U+A782", "U+A783", "U+A784", "U+A785", "U+A786", "U+A787",
    "U+A78B", "U+A78C", "U+A78D", "U+A78E", "U+A790", "U+A791", "U+A792", "U+A793", "U+A794",
    "U+A795", "U+A796", "U+A797", "U+A798", "U+A799", "U+A79A", "U+A79B", "U+A79C", "U+A79D",
    "U+A79E", "U+A79F", "U+A7A0", "U+A7A1", "U+A7A2", "U+A7A3", "U+A7A4", "U+A7A5", "U+A7A6",
    "U+A7A7", "U+A7A8", "U+A7A9", "U+A7AA", "U+A7AB", "U+A7AC", "U+A7AD", "U+A7AE", "U+A7AF",
    "U+A7B0", "U+A7B1", "U+A7B2", "U+A7B3", "U+A7B4", "U+A7B5", "U+A7B6", "U+A7B7", "U+A7B8",
    "U+A7B9", "U+A7BA", "U+A7BB", "U+A7BC", "U+A7BD", "U+A7BE", "U+A7BF", "U+A7C0", "U+A7C1",
    "U+A7C2", "U+A7C3", "U+A7C4", "U+A7C5", "U+A7C6", "U+A7C7", "U+A7C8", "U+A7C9", "U+A7CA",
    "U+A7CB", "U+A7CC", "U+A7CD", "U+A7CE", "U+A7CF", "U+A7D0", "U+A7D1", "U+A7D2", "U+A7D3",
    "U+A7D4", "U+A7D5", "U+A7D6", "U+A7D7", "U+A7D8", "U+A7D9", "U+A7DA", "U+A7DB", "U+A7DC",
    "U+A7F5", "U+A7F6", "U+A7FA", "U+AB30", "U+AB31", "U+AB32", "U+AB33", "U+AB34", "U+AB35",
    "U+AB36", "U+AB37", "U+AB38", "U+AB39", "U+AB3A", "U+AB3B", "U+AB3C", "U+AB3D", "U+AB3E",
    "U+AB3F", "U+AB40", "U+AB41", "U+AB42", "U+AB43", "U+AB44", "U+AB45", "U+AB46", "U+AB47",
    "U+AB48", "U+AB49", "U+AB4A", "U+AB4B", "U+AB4C", "U+AB4D", "U+AB4E", "U+AB4F", "U+AB50",
    "U+AB51", "U+AB52", "U+AB53", "U+AB54", "U+AB55", "U+AB56", "U+AB57", "U+AB58", "U+AB59",
    "U+AB5A", "U+AB60", "U+AB61", "U+AB62", "U+AB63", "U+AB64", "U+AB65", "U+AB66", "U+AB67",
    "U+AB68", "U+AB70", "U+AB71", "U+AB72", "U+AB73", "U+AB74", "U+AB75", "U+AB76", "U+AB77",
    "U+AB78", "U+AB79", "U+AB7A", "U+AB7B", "U+AB7C", "U+AB7D", "U+AB7E", "U+AB7F", "U+AB80",
    "U+AB81", "U+AB82", "U+AB83", "U+AB84", "U+AB85", "U+AB86", "U+AB87", "U+AB88", "U+AB89",
    "U+AB8A", "U+AB8B", "U+AB8C", "U+AB8D", "U+AB8E", "U+AB8F", "U+AB90", "U+AB91", "U+AB92",
    "U+AB93", "U+AB94", "U+AB95", "U+AB96", "U+AB97", "U+AB98", "U+AB99", "U+AB9A", "U+AB9B",
    "U+AB9C", "U+AB9D", "U+AB9E", "U+AB9F", "U+ABA0", "U+ABA1", "U+ABA2", "U+ABA3", "U+ABA4",
    "U+ABA5", "U+ABA6", "U+ABA7", "U+ABA8", "U+ABA9", "U+ABAA", "U+ABAB", "U+ABAC", "U+ABAD",
    "U+ABAE", "U+ABAF", "U+ABB0", "U+ABB1", "U+ABB2", "U+ABB3", "U+ABB4", "U+ABB5", "U+ABB6",
    "U+ABB7", "U+ABB8", "U+ABB9", "U+ABBA", "U+ABBB", "U+ABBC", "U+ABBD", "U+ABBE", "U+ABBF",
    "U+FB00", "U+FB01", "U+FB02", "U+FB03", "U+FB04", "U+FB05", "U+FB06", "U+FB13", "U+FB14",
    "U+FB15", "U+FB16", "U+FB17", "U+FF21", "U+FF22", "U+FF23", "U+FF24", "U+FF25", "U+FF26",
    "U+FF27", "U+FF28", "U+FF29", "U+FF2A", "U+FF2B", "U+FF2C", "U+FF2D", "U+FF2E", "U+FF2F",
    "U+FF30", "U+FF31", "U+FF32", "U+FF33", "U+FF34", "U+FF35", "U+FF36", "U+FF37", "U+FF38",
    "U+FF39", "U+FF3A", "U+FF41", "U+FF42", "U+FF43", "U+FF44", "U+FF45", "U+FF46", "U+FF47",
    "U+FF48", "U+FF49", "U+FF4A", "U+FF4B", "U+FF4C", "U+FF4D", "U+FF4E", "U+FF4F", "U+FF50",
    "U+FF51", "U+FF52", "U+FF53", "U+FF54", "U+FF55", "U+FF56", "U+FF57", "U+FF58", "U+FF59",
    "U+FF5A" }

\* the marks outside U+0300 to U+036F that the canonical ordering of NFD may move, of
\* the Basic Multilingual Plane
ReorderedMarks ==
  <<
    "U+0483", "U+0484", "U+0485", "U+0486", "U+0487", "U+0591", "U+0592", "U+0593", "U+0594",
    "U+0595", "U+0596", "U+0597", "U+0598", "U+0599", "U+059A", "U+059B", "U+059C", "U+059D",
    "U+059E", "U+059F", "U+05A0", "U+05A1", "U+05A2", "U+05A3", "U+05A4", "U+05A5", "U+05A6",
    "U+05A7", "U+05A8", "U+05A9", "U+05AA", "U+05AB", "U+05AC", "U+05AD", "U+05AE", "U+05AF",
    "U+05B0", "U+05B1", "U+05B2", "U+05B3", "U+05B4", "U+05B5", "U+05B6", "U+05B7", "U+05B8",
    "U+05B9", "U+05BA", "U+05BB", "U+05BC", "U+05BD", "U+05BF", "U+05C1", "U+05C2", "U+05C4",
    "U+05C5", "U+05C7", "U+0610", "U+0611", "U+0612", "U+0613", "U+0614", "U+0615", "U+0616",
    "U+0617", "U+0618", "U+0619", "U+061A", "U+064B", "U+064C", "U+064D", "U+064E", "U+064F",
    "U+0650", "U+0651", "U+0652", "U+0653", "U+0654", "U+0655", "U+0656", "U+0657", "U+0658",
    "U+0659", "U+065A", "U+065B", "U+065C", "U+065D", "U+065E", "U+065F", "U+0670", "U+06D6",
    "U+06D7", "U+06D8", "U+06D9", "U+06DA", "U+06DB", "U+06DC", "U+06DF", "U+06E0", "U+06E1",
    "U+06E2", "U+06E3", "U+06E4", "U+06E7", "U+06E8", "U+06EA", "U+06EB", "U+06EC", "U+06ED",
    "U+0711", "U+0730", "U+0731", "U+0732", "U+0733", "U+0734", "U+0735", "U+0736", "U+0737",
    "U+0738", "U+0739", "U+073A", "U+073B", "U+073C", "U+073D", "U+073E", "U+073F", "U+0740",
    "U+0741", "U+0742", "U+0743", "U+0744", "U+0745", "U+0746", "U+0747", "U+0748", "U+0749",
    "U+074A", "U+07EB", "U+07EC", "U+07ED", "U+07EE", "U+07EF", "U+07F0", "U+07F1", "U+07F2",
    "U+07F3", "U+07FD", "U+0816", "U+0817", "U+0818", "U+0819", "U+081B", "U+081C", "U+081D",
    "U+081E", "U+081F", "U+0820", "U+0821", "U+0822", "U+0823", "U+0825", "U+0826", "U+0827",
    "U+0829", "U+082A", "U+082B", "U+082C", "U+082D", "U+0859", "U+085A", "U+085B", "U+0897",
    "U+0898", "U+0899", "U+089A", "U+089B", "U+089C", "U+089D", "U+089E", "U+089F", "U+08CA",
    "U+08CB", "U+08CC", "U+08CD", "U+08CE", "U+08CF", "U+08D0", "U+08D1", "U+08D2", "U+08D3",
    "U+08D4", "U+08D5", "U+08D6", "U+08D7", "U+08D8", "U+08D9", "U+08DA", "U+08DB", "U+08DC",
    "U+08DD", "U+08DE", "U+08DF", "U+08E0", "U+08E1", "U+08E3", "U+08E4", "U+08E5", "U+08E6",
    "U+08E7", "U+08E8", "U+08E9", "U+08EA", "U+08EB", "U+08EC", "U+08ED", "U+08EE", "U+08EF",
    "U+08F0", "U+08F1", "U+08F2", "U+08F3", "U+08F4", "U+08F5", "U+08F6", "U+08F7", "U+08F8",
    "U+08F9", "U+08FA", "U+08FB", "U+08FC", "U+08FD", "U+08FE", "U+08FF", "U+093C", "U+094D",
    "U+0951", "U+0952", "U+0953", "U+0954", "U+09BC", "U+09CD", "U+09FE", "U+0A3C", "U+0A4D",
    "U+0ABC", "U+0ACD", "U+0B3C", "U+0B4D", "U+0BCD", "U+0C3C", "U+0C4D", "U+0C55", "U+0C56",
    "U+0CBC", "U+0CCD", "U+0D3B", "U+0D3C", "U+0D4D", "U+0DCA", "U+0E38", "U+0E39", "U+0E3A",
    "U+0E48", "U+0E49", "U+0E4A", "U+0E4B", "U+0EB8", "U+0EB9", "U+0EBA", "U+0EC8", "U+0EC9",
    "U+0ECA", "U+0ECB", "U+0F18", "U+0F19", "U+0F35", "U+0F37", "U+0F39", "U+0F71", "U+0F72",
    "U+0F74", "U+0F7A", "U+0F7B", "U+0F7C", "U+0F7D", "U+0F80", "U+0F82", "U+0F83", "U+0F84",
    "U+0F86", "U+0F87", "U+0FC6", "U+1037", "U+1039", "U+103A", "U+108D", "U+135D", "U+135E",
    "U+135F", "U+1714", "U+1715", "U+1734", "U+17D2", "U+17DD", "U+18A9", "U+1939", "U+193A",
    "U+193B", "U+1A17", "U+1A18", "U+1A60", "U+1A75", "U+1A76", "U+1A77", "U+1A78", "U+1A79",
    "U+1A7A", "U+1A7B", "U+1A7C", "U+1A7F", "U+1AB0", "U+1AB1", "U+1AB2", "U+1AB3", "U+1AB4",
    "U+1AB5", "U+1AB6", "U+1AB7", "U+1AB8", "U+1AB9", "U+1ABA", "U+1ABB", "U+1ABC", "U+1ABD",
    "U+1ABF", "U+1AC0", "U+1AC1", "U+1AC2", "U+1AC3", "U+1AC4", "U+1AC5", "U+1AC6", "U+1AC7",
    "U+1AC8", "U+1AC9", "U+1ACA", "U+1ACB", "U+1ACC", "U+1ACD", "U+1ACE", "U+1ACF", "U+1AD0",
    "U+1AD1", "U+1AD2", "U+1AD3", "U+1AD4", "U+1AD5", "U+1AD6", "U+1AD7", "U+1AD8", "U+1AD9",
    "U+1ADA", "U+1ADB", "U+1ADC", "U+1ADD", "U+1AE0", "U+1AE1", "U+1AE2", "U+1AE3", "U+1AE4",
    "U+1AE5", "U+1AE6", "U+1AE7", "U+1AE8", "U+1AE9", "U+1AEA", "U+1AEB", "U+1B34", "U+1B44",
    "U+1B6B", "U+1B6C", "U+1B6D", "U+1B6E", "U+1B6F", "U+1B70", "U+1B71", "U+1B72", "U+1B73",
    "U+1BAA", "U+1BAB", "U+1BE6", "U+1BF2", "U+1BF3", "U+1C37", "U+1CD0", "U+1CD1", "U+1CD2",
    "U+1CD4", "U+1CD5", "U+1CD6", "U+1CD7", "U+1CD8", "U+1CD9", "U+1CDA", "U+1CDB", "U+1CDC",
    "U+1CDD", "U+1CDE", "U+1CDF", "U+1CE0", "U+1CE2", "U+1CE3", "U+1CE4", "U+1CE5", "U+1CE6",
    "U+1CE7", "U+1CE8", "U+1CED", "U+1CF4", "U+1CF8", "U+1CF9", "U+1DC0", "U+1DC1", "U+1DC2",
    "U+1DC3", "U+1DC4", "U+1DC5", "U+1DC6", "U+1DC7", "U+1DC8", "U+1DC9", "U+1DCA", "U+1DCB",
    "U+1DCC", "U+1DCD", "U+1DCE", "U+1DCF", "U+1DD0", "U+1DD1", "U+1DD2", "U+1DD3", "U+1DD4",
    "U+1DD5", "U+1DD6", "U+1DD7", "U+1DD8", "U+1DD9", "U+1DDA", "U+1DDB", "U+1DDC", "U+1DDD",
    "U+1DDE", "U+1DDF", "U+1DE0", "U+1DE1", "U+1DE2", "U+1DE3", "U+1DE4", "U+1DE5", "U+1DE6",
    "U+1DE7", "U+1DE8", "U+1DE9", "U+1DEA", "U+1DEB", "U+1DEC", "U+1DED", "U+1DEE", "U+1DEF",
    "U+1DF0", "U+1DF1", "U+1DF2", "U+1DF3", "U+1DF4", "U+1DF5", "U+1DF6", "U+1DF7", "U+1DF8",
    "U+1DF9", "U+1DFA", "U+1DFB", "U+1DFC", "U+1DFD", "U+1DFE", "U+1DFF", "U+20D0", "U+20D1",
    "U+20D2", "U+20D3", "U+20D4", "U+20D5", "U+20D6", "U+20D7", "U+20D8", "U+20D9", "U+20DA",
    "U+20DB", "U+20DC", "U+20E1", "U+20E5", "U+20E6", "U+20E7", "U+20E8", "U+20E9", "U+20EA",
    "U+20EB", "U+20EC", "U+20ED", "U+20EE", "U+20EF", "U+20F0", "U+2CEF", "U+2CF0", "U+2CF1",
    "U+2D7F", "U+2DE0", "U+2DE1", "U+2DE2", "U+2DE3", "U+2DE4", "U+2DE5", "U+2DE6", "U+2DE7",
    "U+2DE8", "U+2DE9", "U+2DEA", "U+2DEB", "U+2DEC", "U+2DED", "U+2DEE", "U+2DEF", "U+2DF0",
    "U+2DF1", "U+2DF2", "U+2DF3", "U+2DF4", "U+2DF5", "U+2DF6", "U+2DF7", "U+2DF8", "U+2DF9",
    "U+2DFA", "U+2DFB", "U+2DFC", "U+2DFD", "U+2DFE", "U+2DFF", "U+302A", "U+302B", "U+302C",
    "U+302D", "U+302E", "U+302F", "U+3099", "U+309A", "U+A66F", "U+A674", "U+A675", "U+A676",
    "U+A677", "U+A678", "U+A679", "U+A67A", "U+A67B", "U+A67C", "U+A67D", "U+A69E", "U+A69F",
    "U+A6F0", "U+A6F1", "U+A806", "U+A82C", "U+A8C4", "U+A8E0", "U+A8E1", "U+A8E2", "U+A8E3",
    "U+A8E4", "U+A8E5", "U+A8E6", "U+A8E7", "U+A8E8", "U+A8E9", "U+A8EA", "U+A8EB", "U+A8EC",
    "U+A8ED", "U+A8EE", "U+A8EF", "U+A8F0", "U+A8F1", "U+A92B", "U+A92C", "U+A92D", "U+A953",
    "U+A9B3", "U+A9C0", "U+AAB0", "U+AAB2", "U+AAB3", "U+AAB4", "U+AAB7", "U+AAB8", "U+AABE",
    "U+AABF", "U+AAC1", "U+AAF6", "U+ABED", "U+FB1E", "U+FE20", "U+FE21", "U+FE22", "U+FE23",
    "U+FE24", "U+FE25", "U+FE26", "U+FE27", "U+FE28", "U+FE29", "U+FE2A", "U+FE2B", "U+FE2C",
    "U+FE2D", "U+FE2E", "U+FE2F" >>

\* the canonical combining class of each character of ReorderedMarks
CombiningClasses ==
  <<
    230, 230, 230, 230, 230, 220, 230, 230, 230, 230, 220, 230, 230, 230, 222, 220, 230, 230,
    230, 230, 230, 230, 220, 220, 220, 220, 220, 220, 230, 230, 220, 230, 230, 222, 228, 230, 10,
    11, 12, 13, 14, 15, 16, 17, 18, 19, 19, 20, 21, 22, 23, 24, 25, 230, 220, 18, 230, 230, 230,
    230, 230, 230, 230, 230, 30, 31, 32, 27, 28, 29, 30, 31, 32, 33, 34, 230, 230, 220, 220, 230,
    230, 230, 230, 230, 220, 230, 230, 220, 35, 230, 230, 230, 230, 230, 230, 230, 230, 230, 230,
    230, 220, 230, 230, 230, 220, 230, 230, 220, 36, 230, 220, 230, 230, 220, 230, 230, 220, 220,
    220, 230, 220, 220, 230, 220, 230, 230, 230, 220, 230, 220, 230, 220, 230, 220, 230, 230,
    230, 230, 230, 230, 230, 230, 230, 220, 230, 220, 230, 230, 230, 230, 230, 230, 230, 230,
    230, 230, 230, 230, 230, 230, 230, 230, 230, 230, 230, 230, 230, 220, 220, 220, 230, 230,
    220, 220, 220, 230, 230, 230, 230, 230, 230, 230, 230, 230, 220, 220, 220, 220, 220, 230,
    230, 230, 230, 230, 230, 230, 230, 230, 230, 230, 230, 230, 230, 220, 230, 230, 220, 230,
    230, 220, 230, 230, 230, 220, 220, 220, 27, 28, 29, 230, 230, 230, 220, 230, 230, 220, 220,
    230, 230, 230, 230, 230, 7, 9, 230, 220, 230, 230, 7, 9, 230, 7, 9, 7, 9, 7, 9, 9, 7, 9, 84,
    91, 7, 9, 9, 9, 9, 9, 103, 103, 9, 107, 107, 107, 107, 118, 118, 9, 122, 122, 122, 122, 220,
    220, 220, 220, 216, 129, 130, 132, 130, 130, 130, 130, 130, 230, 230, 9, 230, 230, 220, 7, 9,
    9, 220, 230, 230, 230, 9, 9, 9, 9, 230, 228, 222, 230, 220, 230, 220, 9, 230, 230, 230, 230,
    230, 230, 230, 230, 220, 230, 230, 230, 230, 230, 220, 220, 220, 220, 220, 220, 230, 230,
    220, 220, 220, 230, 230, 220, 220, 230, 230, 230, 230, 230, 220, 230, 230, 230, 230, 230,
    230, 230, 230, 230, 230, 230, 230, 230, 230, 230, 230, 230, 230, 220, 230, 230, 230, 230,
    230, 230, 220, 230, 230, 230, 230, 234, 7, 9, 230, 220, 230, 230, 230, 230, 230, 230, 230, 9,
    9, 7, 9, 9, 7, 230, 230, 230, 1, 220, 220, 220, 220, 220, 230, 230, 220, 220, 220, 220, 230,
    1, 1, 1, 1, 1, 1, 1, 220, 230, 230, 230, 230, 230, 220, 230, 230, 230, 230, 230, 230, 230,
    220, 230, 230, 234, 214, 220, 202, 230, 230, 230, 230, 230, 230, 230, 230, 230, 230, 230,
    230, 230, 230, 230, 230, 230, 230, 230, 230, 230, 230, 230, 230, 230, 230, 230, 230, 230,
    230, 230, 230, 230, 230, 230, 230, 230, 232, 228, 228, 220, 218, 230, 233, 220, 230, 220,
    230, 230, 1, 1, 230, 230, 230, 230, 1, 1, 1, 230, 230, 230, 1, 1, 230, 220, 230, 1, 1, 220,
    220, 220, 220, 230, 230, 230, 230, 9, 230, 230, 230, 230, 230, 230, 230, 230, 230, 230, 230,
    230, 230, 230, 230, 230, 230, 230, 230, 230, 230, 230, 230, 230, 230, 230, 230, 230, 230,
    230, 230, 230, 218, 228, 232, 222, 224, 224, 8, 8, 230, 230, 230, 230, 230, 230, 230, 230,
    230, 230, 230, 230, 230, 230, 230, 9, 9, 9, 230, 230, 230, 230, 230, 230, 230, 230, 230, 230,
    230, 230, 230, 230, 230, 230, 230, 230, 220, 220, 220, 9, 7, 9, 230, 230, 230, 220, 230, 230,
    230, 230, 230, 9, 9, 26, 230, 230, 230, 230, 230, 230, 230, 220, 220, 220, 220, 220, 220,
    220, 230, 230 >>

\* the characters outside the Basic Multilingual Plane that toLowerCase changes, by
\* their code points: <<first, last, d>> stands for the characters first to last, and
\* the lowercase of each is d code points further
SupplementaryUpper ==
  <<
    <<\h10400, \h10427, 40>>, <<\h104B0, \h104D3, 40>>, <<\h10570, \h1057A, 39>>,
    <<\h1057C, \h1058A, 39>>, <<\h1058C, \h10592, 39>>, <<\h10594, \h10595, 39>>,
    <<\h10C80, \h10CB2, 64>>, <<\h10D50, \h10D65, 32>>, <<\h118A0, \h118BF, 32>>,
    <<\h16E40, \h16E5F, 32>>, <<\h16EA0, \h16EB8, 27>>, <<\h1E900, \h1E921, 34>> >>

\* the characters outside the Basic Multilingual Plane with the property
\* Case_Ignorable, by their code points
SupplementaryCaseIgnorable ==
  UNION {
    \h101FD..\h101FD, \h102E0..\h102E0, \h10376..\h1037A, \h10780..\h10785, \h10787..\h107B0,
    \h107B2..\h107BA, \h10A01..\h10A03, \h10A05..\h10A06, \h10A0C..\h10A0F, \h10A38..\h10A3A,
    \h10A3F..\h10A3F, \h10AE5..\h10AE6, \h10D24..\h10D27, \h10D4E..\h10D4E, \h10D69..\h10D6D,
    \h10D6F..\h10D6F, \h10EAB..\h10EAC, \h10EC5..\h10EC5, \h10EFA..\h10EFF, \h10F46..\h10F50,
    \h10F82..\h10F85, \h11001..\h11001, \h11038..\h11046, \h11070..\h11070, \h11073..\h11074,
    \h1107F..\h11081, \h110B3..\h110B6, \h110B9..\h110BA, \h110BD..\h110BD, \h110C2..\h110C2,
    \h110CD..\h110CD, \h11100..\h11102, \h11127..\h1112B, \h1112D..\h11134, \h11173..\h11173,
    \h11180..\h11181, \h111B6..\h111BE, \h111C9..\h111CC, \h111CF..\h111CF, \h1122F..\h11231,
    \h11234..\h11234, \h11236..\h11237, \h1123E..\h1123E, \h11241..\h11241, \h112DF..\h112DF,
    \h112E3..\h112EA, \h11300..\h11301, \h1133B..\h1133C, \h11340..\h11340, \h11366..\h1136C,
    \h11370..\h11374, \h113BB..\h113C0, \h113CE..\h113CE, \h113D0..\h113D0, \h113D2..\h113D2,
    \h113E1..\h113E2, \h11438..\h1143F, \h11442..\h11444, \h11446..\h11446, \h1145E..\h1145E,
    \h114B3..\h114B8, \h114BA..\h114BA, \h114BF..\h114C0, \h114C2..\h114C3, \h115B2..\h115B5,
    \h115BC..\h115BD, \h115BF..\h115C0, \h115DC..\h115DD, \h11633..\h1163A, \h1163D..\h1163D,
    \h1163F..\h11640, \h116AB..\h116AB, \h116AD..\h116AD, \h116B0..\h116B5, \h116B7..\h116B7,
    \h1171D..\h1171D, \h1171F..\h1171F, \h11722..\h11725, \h11727..\h1172B, \h1182F..\h11837,
    \h11839..\h1183A, \h1193B..\h1193C, \h1193E..\h1193E, \h11943..\h11943, \h119D4..\h119D7,
    \h119DA..\h119DB, \h119E0..\h119E0, \h11A01..\h11A0A, \h11A33..\h11A38, \h11A3B..\h11A3E,
    \h11A47..\h11A47, \h11A51..\h11A56, \h11A59..\h11A5B, \h11A8A..\h11A96, \h11A98..\h11A99,
    \h11B60..\h11B60, \h11B62..\h11B64, \h11B66..\h11B66, \h11C30..\h11C36, \h11C38..\h11C3D,
    \h11C3F..\h11C3F, \h11C92..\h11CA7, \h11CAA..\h11CB0, \h11CB2..\h11CB3, \h11CB5..\h11CB6,
    \h11D31..\h11D36, \h11D3A..\h11D3A, \h11D3C..\h11D3D, \h11D3F..\h11D45, \h11D47..\h11D47,
    \h11D90..\h11D91, \h11D95..\h11D95, \h11D97..\h11D97, \h11DD9..\h11DD9, \h11EF3..\h11EF4,
    \h11F00..\h11F01, \h11F36..\h11F3A, \h11F40..\h11F40, \h11F42..\h11F42, \h11F5A..\h11F5A,
    \h13430..\h13440, \h13447..\h13455, \h1611E..\h16129, \h1612D..\h1612F, \h16AF0..\h16AF4,
    \h16B30..\h16B36, \h16B40..\h16B43, \h16D40..\h16D42, \h16D6B..\h16D6C, \h16F4F..\h16F4F,
    \h16F8F..\h16F9F, \h16FE0..\h16FE1, \h16FE3..\h16FE4, \h16FF2..\h16FF3, \h1AFF0..\h1AFF3,
    \h1AFF5..\h1AFFB, \h1AFFD..\h1AFFE, \h1BC9D..\h1BC9E, \h1BCA0..\h1BCA3, \h1CF00..\h1CF2D,
    \h1CF30..\h1CF46, \h1D167..\h1D169, \h1D173..\h1D182, \h1D185..\h1D18B, \h1D1AA..\h1D1AD,
    \h1D242..\h1D244, \h1DA00..\h1DA36, \h1DA3B..\h1DA6C, \h1DA75..\h1DA75, \h1DA84..\h1DA84,
    \h1DA9B..\h1DA9F, \h1DAA1..\h1DAAF, \h1E000..\h1E006, \h1E008..\h1E018, \h1E01B..\h1E021,
    \h1E023..\h1E024, \h1E026..\h1E02A, \h1E030..\h1E06D, \h1E08F..\h1E08F, \h1E130..\h1E13D,
    \h1E2AE..\h1E2AE, \h1E2EC..\h1E2EF, \h1E4EB..\h1E4EF, \h1E5EE..\h1E5EF, \h1E6E3..\h1E6E3,
    \h1E6E6..\h1E6E6, \h1E6EE..\h1E6EF, \h1E6F5..\h1E6F5, \h1E6FF..\h1E6FF, \h1E8D0..\h1E8D6,
    \h1E944..\h1E94B, \h1F3FB..\h1F3FF, \hE0001..\hE0001, \hE0020..\hE007F, \hE0100..\hE01EF }

\* the characters outside the Basic Multilingual Plane that the rule of the final
\* sigma takes for cased letters, by their code points
SupplementaryCased ==
  UNION {
    \h10400..\h1044F, \h104B0..\h104D3, \h104D8..\h104FB, \h10570..\h1057A, \h1057C..\h1058A,
    \h1058C..\h10592, \h10594..\h10595, \h10597..\h105A1, \h105A3..\h105B1, \h105B3..\h105B9,
    \h105BB..\h105BC, \h10C80..\h10CB2, \h10CC0..\h10CF2, \h10D50..\h10D65, \h10D70..\h10D85,
    \h118A0..\h118DF, \h16E40..\h16E7F, \h16EA0..\h16EB8, \h16EBB..\h16ED3, \h1D400..\h1D454,
    \h1D456..\h1D49C, \h1D49E..\h1D49F, \h1D4A2..\h1D4A2, \h1D4A5..\h1D4A6, \h1D4A9..\h1D4AC,
    \h1D4AE..\h1D4B9, \h1D4BB..\h1D4BB, \h1D4BD..\h1D4C3, \h1D4C5..\h1D505, \h1D507..\h1D50A,
    \h1D50D..\h1D514, \h1D516..\h1D51C, \h1D51E..\h1D539, \h1D53B..\h1D53E, \h1D540..\h1D544,
    \h1D546..\h1D546, \h1D54A..\h1D550, \h1D552..\h1D6A5, \h1D6A8..\h1D6C0, \h1D6C2..\h1D6DA,
    \h1D6DC..\h1D6FA, \h1D6FC..\h1D714, \h1D716..\h1D734, \h1D736..\h1D74E, \h1D750..\h1D76E,
    \h1D770..\h1D788, \h1D78A..\h1D7A8, \h1D7AA..\h1D7C2, \h1D7C4..\h1D7CB, \h1DF00..\h1DF09,
    \h1DF0B..\h1DF1E, \h1DF25..\h1DF2A, \h1E900..\h1E943, \h1F130..\h1F149, \h1F150..\h1F169,
    \h1F170..\h1F189 }

\* the marks outside the Basic Multilingual Plane that the canonical ordering of NFD
\* may move: <<first, last, class>> stands for the characters first to last, all of
\* that canonical combining class
SupplementaryMarks ==
  <<
    <<\h101FD, \h101FD, 220>>, <<\h102E0, \h102E0, 220>>, <<\h10376, \h1037A, 230>>,
    <<\h10A0D, \h10A0D, 220>>, <<\h10A0F, \h10A0F, 230>>, <<\h10A38, \h10A38, 230>>,
    <<\h10A39, \h10A39, 1>>, <<\h10A3A, \h10A3A, 220>>, <<\h10A3F, \h10A3F, 9>>,
    <<\h10AE5, \h10AE5, 230>>, <<\h10AE6, \h10AE6, 220>>, <<\h10D24, \h10D27, 230>>,
    <<\h10D69, \h10D6D, 230>>, <<\h10EAB, \h10EAC, 230>>, <<\h10EFA, \h10EFB, 220>>,
    <<\h10EFD, \h10EFF, 220>>, <<\h10F46, \h10F47, 220>>, <<\h10F48, \h10F4A, 230>>,
    <<\h10F4B, \h10F4B, 220>>, <<\h10F4C, \h10F4C, 230>>, <<\h10F4D, \h10F50, 220>>,
    <<\h10F82, \h10F82, 230>>, <<\h10F83, \h10F83, 220>>, <<\h10F84, \h10F84, 230>>,
    <<\h10F85, \h10F85, 220>>, <<\h11046, \h11046, 9>>, <<\h11070, \h11070, 9>>,
    <<\h1107F, \h1107F, 9>>, <<\h110B9, \h110B9, 9>>, <<\h110BA, \h110BA, 7>>,
    <<\h11100, \h11102, 230>>, <<\h11133, \h11134, 9>>, <<\h11173, \h11173, 7>>,
    <<\h111C0, \h111C0, 9>>, <<\h111CA, \h111CA, 7>>, <<\h11235, \h11235, 9>>,
    <<\h11236, \h11236, 7>>, <<\h112E9, \h112E9, 7>>, <<\h112EA, \h112EA, 9>>,
    <<\h1133B, \h1133C, 7>>, <<\h1134D, \h1134D, 9>>, <<\h11366, \h1136C, 230>>,
    <<\h11370, \h11374, 230>>, <<\h113CE, \h113D0, 9>>, <<\h11442, \h11442, 9>>,
    <<\h11446, \h11446, 7>>, <<\h1145E, \h1145E, 230>>, <<\h114C2, \h114C2, 9>>,
    <<\h114C3, \h114C3, 7>>, <<\h115BF, \h115BF, 9>>, <<\h115C0, \h115C0, 7>>,
    <<\h1163F, \h1163F, 9>>, <<\h116B6, \h116B6, 9>>, <<\h116B7, \h116B7, 7>>,
    <<\h1172B, \h1172B, 9>>, <<\h11839, \h11839, 9>>, <<\h1183A, \h1183A, 7>>,
    <<\h1193D, \h1193E, 9>>, <<\h11943, \h11943, 7>>, <<\h119E0, \h119E0, 9>>,
    <<\h11A34, \h11A34, 9>>, <<\h11A47, \h11A47, 9>>, <<\h11A99, \h11A99, 9>>,
    <<\h11C3F, \h11C3F, 9>>, <<\h11D42, \h11D42, 7>>, <<\h11D44, \h11D45, 9>>,
    <<\h11D97, \h11D97, 9>>, <<\h11F41, \h11F42, 9>>, <<\h1612F, \h1612F, 9>>,
    <<\h16AF0, \h16AF4, 1>>, <<\h16B30, \h16B36, 230>>, <<\h16FF0, \h16FF1, 6>>,
    <<\h1BC9E, \h1BC9E, 1>>, <<\h1D165, \h1D166, 216>>, <<\h1D167, \h1D169, 1>>,
    <<\h1D16D, \h1D16D, 226>>, <<\h1D16E, \h1D172, 216>>, <<\h1D17B, \h1D182, 220>>,
    <<\h1D185, \h1D189, 230>>, <<\h1D18A, \h1D18B, 220>>, <<\h1D1AA, \h1D1AD, 230>>,
    <<\h1D242, \h1D244, 230>>, <<\h1E000, \h1E006, 230>>, <<\h1E008, \h1E018, 230>>,
    <<\h1E01B, \h1E021, 230>>, <<\h1E023, \h1E024, 230>>, <<\h1E026, \h1E02A, 230>>,
    <<\h1E08F, \h1E08F, 230>>, <<\h1E130, \h1E136, 230>>, <<\h1E2AE, \h1E2AE, 230>>,
    <<\h1E2EC, \h1E2EF, 230>>, <<\h1E4EC, \h1E4ED, 232>>, <<\h1E4EE, \h1E4EE, 220>>,
    <<\h1E4EF, \h1E4EF, 230>>, <<\h1E5EE, \h1E5EE, 230>>, <<\h1E5EF, \h1E5EF, 220>>,
    <<\h1E6E3, \h1E6E3, 230>>, <<\h1E6E6, \h1E6E6, 230>>, <<\h1E6EE, \h1E6EF, 230>>,
    <<\h1E6F5, \h1E6F5, 230>>, <<\h1E8D0, \h1E8D6, 220>>, <<\h1E944, \h1E949, 230>>,
    <<\h1E94A, \h1E94A, 7>> >>

\* the characters outside the Basic Multilingual Plane with a canonical
\* decomposition, in rows of four code points: the character, and the characters of
\* its canonical decomposition, which are three at most and none of them a mark
\* U+0300 to U+036F or a character written by itself, with 0 where there is none
SupplementaryDecompositions ==
  <<
    \h105C9, \h105D2, 0, 0, \h105E4, \h105DA, 0, 0, \h1109A, \h11099, \h110BA, 0,
    \h1109C, \h1109B, \h110BA, 0, \h110AB, \h110A5, \h110BA, 0, \h1112E, \h11131, \h11127, 0,
    \h1112F, \h11132, \h11127, 0, \h1134B, \h11347, \h1133E, 0, \h1134C, \h11347, \h11357, 0,
    \h11383, \h11382, \h113C9, 0, \h11385, \h11384, \h113BB, 0, \h1138E, \h1138B, \h113C2, 0,
    \h11391, \h11390, \h113C9, 0, \h113C5, \h113C2, \h113C2, 0, \h113C7, \h113C2, \h113B8, 0,
    \h113C8, \h113C2, \h113C9, 0, \h114BB, \h114B9, \h114BA, 0, \h114BC, \h114B9, \h114B0, 0,
    \h114BE, \h114B9, \h114BD, 0, \h115BA, \h115B8, \h115AF, 0, \h115BB, \h115B9, \h115AF, 0,
    \h11938, \h11935, \h11930, 0, \h16121, \h1611E, \h1611E, 0, \h16122, \h1611E, \h16129, 0,
    \h16123, \h1611E, \h1611F, 0, \h16124, \h16129, \h1611F, 0, \h16125, \h1611E, \h16120, 0,
    \h16126, \h1611E, \h1611E, \h1611F, \h16127, \h1611E, \h16129, \h1611F, \h16128, \h1611E, \h1611E, \h16120,
    \h16D68, \h16D67, \h16D67, 0, \h16D69, \h16D63, \h16D67, 0, \h16D6A, \h16D63, \h16D67, \h16D67,
    \h1D15E, \h1D157, \h1D165, 0, \h1D15F, \h1D158, \h1D165, 0, \h1D160, \h1D158, \h1D165, \h1D16E,
    \h1D161, \h1D158, \h1D165, \h1D16F, \h1D162, \h1D158, \h1D165, \h1D170, \h1D163, \h1D158, \h1D165, \h1D171,
    \h1D164, \h1D158, \h1D165, \h1D172, \h1D1BB, \h1D1B9, \h1D165, 0, \h1D1BC, \h1D1BA, \h1D165, 0,
    \h1D1BD, \h1D1B9, \h1D165, \h1D16E, \h1D1BE, \h1D1BA, \h1D165, \h1D16E, \h1D1BF, \h1D1B9, \h1D165, \h1D16F,
    \h1D1C0, \h1D1BA, \h1D165, \h1D16F, \h2F800, \h4E3D, 0, 0, \h2F801, \h4E38, 0, 0,
    \h2F802, \h4E41, 0, 0, \h2F803, \h20122, 0, 0, \h2F804, \h4F60, 0, 0,
    \h2F805, \h4FAE, 0, 0, \h2F806, \h4FBB, 0, 0, \h2F807, \h5002, 0, 0,
    \h2F808, \h507A, 0, 0, \h2F809, \h5099, 0, 0, \h2F80A, \h50E7, 0, 0,
    \h2F80B, \h50CF, 0, 0, \h2F80C, \h349E, 0, 0, \h2F80D, \h2063A, 0, 0,
    \h2F80E, \h514D, 0, 0, \h2F80F, \h5154, 0, 0, \h2F810, \h5164, 0, 0,
    \h2F811, \h5177, 0, 0, \h2F812, \h2051C, 0, 0, \h2F813, \h34B9, 0, 0,
    \h2F814, \h5167, 0, 0, \h2F815, \h518D, 0, 0, \h2F816, \h2054B, 0, 0,
    \h2F817, \h5197, 0, 0, \h2F818, \h51A4, 0, 0, \h2F819, \h4ECC, 0, 0,
    \h2F81A, \h51AC, 0, 0, \h2F81B, \h51B5, 0, 0, \h2F81C, \h291DF, 0, 0,
    \h2F81D, \h51F5, 0, 0, \h2F81E, \h5203, 0, 0, \h2F81F, \h34DF, 0, 0,
    \h2F820, \h523B, 0, 0, \h2F821, \h5246, 0, 0, \h2F822, \h5272, 0, 0,
    \h2F823, \h5277, 0, 0, \h2F824, \h3515, 0, 0, \h2F825, \h52C7, 0, 0,
    \h2F826, \h52C9, 0, 0, \h2F827, \h52E4, 0, 0, \h2F828, \h52FA, 0, 0,
    \h2F829, \h5305, 0, 0, \h2F82A, \h5306, 0, 0, \h2F82B, \h5317, 0, 0,
    \h2F82C, \h5349, 0, 0, \h2F82D, \h5351, 0, 0, \h2F82E, \h535A, 0, 0,
    \h2F82F, \h5373, 0, 0, \h2F830, \h537D, 0, 0, \h2F831, \h537F, 0, 0,
    \h2F832, \h537F, 0, 0, \h2F833, \h537F, 0, 0, \h2F834, \h20A2C, 0, 0,
    \h2F835, \h7070, 0, 0, \h2F836, \h53CA, 0, 0, \h2F837, \h53DF, 0, 0,
    \h2F838, \h20B63, 0, 0, \h2F839, \h53EB, 0, 0, \h2F83A, \h53F1, 0, 0,
    \h2F83B, \h5406, 0, 0, \h2F83C, \h549E, 0, 0, \h2F83D, \h5438, 0, 0,
    \h2F83E, \h5448, 0, 0, \h2F83F, \h5468, 0, 0, \h2F840, \h54A2, 0, 0,
    \h2F841, \h54F6, 0, 0, \h2F842, \h5510, 0, 0, \h2F843, \h5553, 0, 0,
    \h2F844, \h5563, 0, 0, \h2F845, \h5584, 0, 0, \h2F846, \h5584, 0, 0,
    \h2F847, \h5599, 0, 0, \h2F848, \h55AB, 0, 0, \h2F849, \h55B3, 0, 0,
    \h2F84A, \h55C2, 0, 0, \h2F84B, \h5716, 0, 0, \h2F84C, \h5606, 0, 0,
    \h2F84D, \h5717, 0, 0, \h2F84E, \h5651, 0, 0, \h2F84F, \h5674, 0, 0,
    \h2F850, \h5207, 0, 0, \h2F851, \h58EE, 0, 0, \h2F852, \h57CE, 0, 0,
    \h2F853, \h57F4, 0, 0, \h2F854, \h580D, 0, 0, \h2F855, \h578B, 0, 0,
    \h2F856, \h5832, 0, 0, \h2F857, \h5831, 0, 0, \h2F858, \h58AC, 0, 0,
    \h2F859, \h214E4, 0, 0, \h2F85A, \h58F2, 0, 0, \h2F85B, \h58F7, 0, 0,
    \h2F85C, \h5906, 0, 0, \h2F85D, \h591A, 0, 0, \h2F85E, \h5922, 0, 0,
    \h2F85F, \h5962, 0, 0, \h2F860, \h216A8, 0, 0, \h2F861, \h216EA, 0, 0,
    \h2F862, \h59EC, 0, 0, \h2F863, \h5A1B, 0, 0, \h2F864, \h5A27, 0, 0,
    \h2F865, \h59D8, 0, 0, \h2F866, \h5A66, 0, 0, \h2F867, \h36EE, 0, 0,
    \h2F868, \h36FC, 0, 0, \h2F869, \h5B08, 0, 0, \h2F86A, \h5B3E, 0, 0,
    \h2F86B, \h5B3E, 0, 0, \h2F86C, \h219C8, 0, 0, \h2F86D, \h5BC3, 0, 0,
    \h2F86E, \h5BD8, 0, 0, \h2F86F, \h5BE7, 0, 0, \h2F870, \h5BF3, 0, 0,
    \h2F871, \h21B18, 0, 0, \h2F872, \h5BFF, 0, 0, \h2F873, \h5C06, 0, 0,
    \h2F874, \h5F53, 0, 0, \h2F875, \h5C22, 0, 0, \h2F876, \h3781, 0, 0,
    \h2F877, \h5C60, 0, 0, \h2F878, \h5C6E, 0, 0, \h2F879, \h5CC0, 0, 0,
    \h2F87A, \h5C8D, 0, 0, \h2F87B, \h21DE4, 0, 0, \h2F87C, \h5D43, 0, 0,
    \h2F87D, \h21DE6, 0, 0, \h2F87E, \h5D6E, 0, 0, \h2F87F, \h5D6B, 0, 0,
    \h2F880, \h5D7C, 0, 0, \h2F881, \h5DE1, 0, 0, \h2F882, \h5DE2, 0, 0,
    \h2F883, \h382F, 0, 0, \h2F884, \h5DFD, 0, 0, \h2F885, \h5E28, 0, 0,
    \h2F886, \h5E3D, 0, 0, \h2F887, \h5E69, 0, 0, \h2F888, \h3862, 0, 0,
    \h2F889, \h22183, 0, 0, \h2F88A, \h387C, 0, 0, \h2F88B, \h5EB0, 0, 0,
    \h2F88C, \h5EB3, 0, 0, \h2F88D, \h5EB6, 0, 0, \h2F88E, \h5ECA, 0, 0,
    \h2F88F, \h2A392, 0, 0, \h2F890, \h5EFE, 0, 0, \h2F891, \h22331, 0, 0,
    \h2F892, \h22331, 0, 0, \h2F893, \h8201, 0, 0, \h2F894, \h5F22, 0, 0,
    \h2F895, \h5F22, 0, 0, \h2F896, \h38C7, 0, 0, \h2F897, \h232B8, 0, 0,
    \h2F898, \h261DA, 0, 0, \h2F899, \h5F62, 0, 0, \h2F89A, \h5F6B, 0, 0,
    \h2F89B, \h38E3, 0, 0, \h2F89C, \h5F9A, 0, 0, \h2F89D, \h5FCD, 0, 0,
    \h2F89E, \h5FD7, 0, 0, \h2F89F, \h5FF9, 0, 0, \h2F8A0, \h6081, 0, 0,
    \h2F8A1, \h393A, 0, 0, \h2F8A2, \h391C, 0, 0, \h2F8A3, \h6094, 0, 0,
    \h2F8A4, \h226D4, 0, 0, \h2F8A5, \h60C7, 0, 0, \h2F8A6, \h6148, 0, 0,
    \h2F8A7, \h614C, 0, 0, \h2F8A8, \h614E, 0, 0, \h2F8A9, \h614C, 0, 0,
    \h2F8AA, \h617A, 0, 0, \h2F8AB, \h618E, 0, 0, \h2F8AC, \h61B2, 0, 0,
    \h2F8AD, \h61A4, 0, 0, \h2F8AE, \h61AF, 0, 0, \h2F8AF, \h61DE, 0, 0,
    \h2F8B0, \h61F2, 0, 0, \h2F8B1, \h61F6, 0, 0, \h2F8B2, \h6210, 0, 0,
    \h2F8B3, \h621B, 0, 0, \h2F8B4, \h625D, 0, 0, \h2F8B5, \h62B1, 0, 0,
    \h2F8B6, \h62D4, 0, 0, \h2F8B7, \h6350, 0, 0, \h2F8B8, \h22B0C, 0, 0,
    \h2F8B9, \h633D, 0, 0, \h2F8BA, \h62FC, 0, 0, \h2F8BB, \h6368, 0, 0,
    \h2F8BC, \h6383, 0, 0, \h2F8BD, \h63E4, 0, 0, \h2F8BE, \h22BF1, 0, 0,
    \h2F8BF, \h6422, 0, 0, \h2F8C0, \h63C5, 0, 0, \h2F8C1, \h63A9, 0, 0,
    \h2F8C2, \h3A2E, 0, 0, \h2F8C3, \h6469, 0, 0, \h2F8C4, \h647E, 0, 0,
    \h2F8C5, \h649D, 0, 0, \h2F8C6, \h6477, 0, 0, \h2F8C7, \h3A6C, 0, 0,
    \h2F8C8, \h654F, 0, 0, \h2F8C9, \h656C, 0, 0, \h2F8CA, \h2300A, 0, 0,
    \h2F8CB, \h65E3, 0, 0, \h2F8CC, \h66F8, 0, 0, \h2F8CD, \h6649, 0, 0,
    \h2F8CE, \h3B19, 0, 0, \h2F8CF, \h6691, 0, 0, \h2F8D0, \h3B08, 0, 0,
    \h2F8D1, \h3AE4, 0, 0, \h2F8D2, \h5192, 0, 0, \h2F8D3, \h5195, 0, 0,
    \h2F8D4, \h6700, 0, 0, \h2F8D5, \h669C, 0, 0, \h2F8D6, \h80AD, 0, 0,
    \h2F8D7, \h43D9, 0, 0, \h2F8D8, \h6717, 0, 0, \h2F8D9, \h671B, 0, 0,
    \h2F8DA, \h6721, 0, 0, \h2F8DB, \h675E, 0, 0, \h2F8DC, \h6753, 0, 0,
    \h2F8DD, \h233C3, 0, 0, \h2F8DE, \h3B49, 0, 0, \h2F8DF, \h67FA, 0, 0,
    \h2F8E0, \h6785, 0, 0, \h2F8E1, \h6852, 0, 0, \h2F8E2, \h6885, 0, 0,
    \h2F8E3, \h2346D, 0, 0, \h2F8E4, \h688E, 0, 0, \h2F8E5, \h681F, 0, 0,
    \h2F8E6, \h6914, 0, 0, \h2F8E7, \h3B9D, 0, 0, \h2F8E8, \h6942, 0, 0,
    \h2F8E9, \h69A3, 0, 0, \h2F8EA, \h69EA, 0, 0, \h2F8EB, \h6AA8, 0, 0,
    \h2F8EC, \h236A3, 0, 0, \h2F8ED, \h6ADB, 0, 0, \h2F8EE, \h3C18, 0, 0,
    \h2F8EF, \h6B21, 0, 0, \h2F8F0, \h238A7, 0, 0, \h2F8F1, \h6B54, 0, 0,
    \h2F8F2, \h3C4E, 0, 0, \h2F8F3, \h6B72, 0, 0, \h2F8F4, \h6B9F, 0, 0,
    \h2F8F5, \h6BBA, 0, 0, \h2F8F6, \h6BBB, 0, 0, \h2F8F7, \h23A8D, 0, 0,
    \h2F8F8, \h21D0B, 0, 0, \h2F8F9, \h23AFA, 0, 0, \h2F8FA, \h6C4E, 0, 0,
    \h2F8FB, \h23CBC, 0, 0, \h2F8FC, \h6CBF, 0, 0, \h2F8FD, \h6CCD, 0, 0,
    \h2F8FE, \h6C67, 0, 0, \h2F8FF, \h6D16, 0, 0, \h2F900, \h6D3E, 0, 0,
    \h2F901, \h6D77, 0, 0, \h2F902, \h6D41, 0, 0, \h2F903, \h6D69, 0, 0,
    \h2F904, \h6D78, 0, 0, \h2F905, \h6D85, 0, 0, \h2F906, \h23D1E, 0, 0,
    \h2F907, \h6D34, 0, 0, \h2F908, \h6E2F, 0, 0, \h2F909, \h6E6E, 0, 0,
    \h2F90A, \h3D33, 0, 0, \h2F90B, \h6ECB, 0, 0, \h2F90C, \h6EC7, 0, 0,
    \h2F90D, \h23ED1, 0, 0, \h2F90E, \h6DF9, 0, 0, \h2F90F, \h6F6E, 0, 0,
    \h2F910, \h23F5E, 0, 0, \h2F911, \h23F8E, 0, 0, \h2F912, \h6FC6, 0, 0,
    \h2F913, \h7039, 0, 0, \h2F914, \h701E, 0, 0, \h2F915, \h701B, 0, 0,
    \h2F916, \h3D96, 0, 0, \h2F917, \h704A, 0, 0, \h2F918, \h707D, 0, 0,
    \h2F919, \h7077, 0, 0, \h2F91A, \h70AD, 0, 0, \h2F91B, \h20525, 0, 0,
    \h2F91C, \h7145, 0, 0, \h2F91D, \h24263, 0, 0, \h2F91E, \h719C, 0, 0,
    \h2F91F, \h243AB, 0, 0, \h2F920, \h7228, 0, 0, \h2F921, \h7235, 0, 0,
    \h2F922, \h7250, 0, 0, \h2F923, \h24608, 0, 0, \h2F924, \h7280, 0, 0,
    \h2F925, \h7295, 0, 0, \h2F926, \h24735, 0, 0, \h2F927, \h24814, 0, 0,
    \h2F928, \h737A, 0, 0, \h2F929, \h738B, 0, 0, \h2F92A, \h3EAC, 0, 0,
    \h2F92B, \h73A5, 0, 0, \h2F92C, \h3EB8, 0, 0, \h2F92D, \h3EB8, 0, 0,
    \h2F92E, \h7447, 0, 0, \h2F92F, \h745C, 0, 0, \h2F930, \h7471, 0, 0,
    \h2F931, \h7485, 0, 0, \h2F932, \h74CA, 0, 0, \h2F933, \h3F1B, 0, 0,
    \h2F934, \h7524, 0, 0, \h2F935, \h24C36, 0, 0, \h2F936, \h753E, 0, 0,
    \h2F937, \h24C92, 0, 0, \h2F938, \h7570, 0, 0, \h2F939, \h2219F, 0, 0,
    \h2F93A, \h7610, 0, 0, \h2F93B, \h24FA1, 0, 0, \h2F93C, \h24FB8, 0, 0,
    \h2F93D, \h25044, 0, 0, \h2F93E, \h3FFC, 0, 0, \h2F93F, \h4008, 0, 0,
    \h2F940, \h76F4, 0, 0, \h2F941, \h250F3, 0, 0, \h2F942, \h250F2, 0, 0,
    \h2F943, \h25119, 0, 0, \h2F944, \h25133, 0, 0, \h2F945, \h771E, 0, 0,
    \h2F946, \h771F, 0, 0, \h2F947, \h771F, 0, 0, \h2F948, \h774A, 0, 0,
    \h2F949, \h4039, 0, 0, \h2F94A, \h778B, 0, 0, \h2F94B, \h4046, 0, 0,
    \h2F94C, \h4096, 0, 0, \h2F94D, \h2541D, 0, 0, \h2F94E, \h784E, 0, 0,
    \h2F94F, \h788C, 0, 0, \h2F950, \h78CC, 0, 0, \h2F951, \h40E3, 0, 0,
    \h2F952, \h25626, 0, 0, \h2F953, \h7956, 0, 0, \h2F954, \h2569A, 0, 0,
    \h2F955, \h256C5, 0, 0, \h2F956, \h798F, 0, 0, \h2F957, \h79EB, 0, 0,
    \h2F958, \h412F, 0, 0, \h2F959, \h7A40, 0, 0, \h2F95A, \h7A4A, 0, 0,
    \h2F95B, \h7A4F, 0, 0, \h2F95C, \h2597C, 0, 0, \h2F95D, \h25AA7, 0, 0,
    \h2F95E, \h25AA7, 0, 0, \h2F95F, \h7AEE, 0, 0, \h2F960, \h4202, 0, 0,
    \h2F961, \h25BAB, 0, 0, \h2F962, \h7BC6, 0, 0, \h2F963, \h7BC9, 0, 0,
    \h2F964, \h4227, 0, 0, \h2F965, \h25C80, 0, 0, \h2F966, \h7CD2, 0, 0,
    \h2F967, \h42A0, 0, 0, \h2F968, \h7CE8, 0, 0, \h2F969, \h7CE3, 0, 0,
    \h2F96A, \h7D00, 0, 0, \h2F96B, \h25F86, 0, 0, \h2F96C, \h7D63, 0, 0,
    \h2F96D, \h4301, 0, 0, \h2F96E, \h7DC7, 0, 0, \h2F96F, \h7E02, 0, 0,
    \h2F970, \h7E45, 0, 0, \h2F971, \h4334, 0, 0, \h2F972, \h26228, 0, 0,
    \h2F973, \h26247, 0, 0, \h2F974, \h4359, 0, 0, \h2F975, \h262D9, 0, 0,
    \h2F976, \h7F7A, 0, 0, \h2F977, \h2633E, 0, 0, \h2F978, \h7F95, 0, 0,
    \h2F979, \h7FFA, 0, 0, \h2F97A, \h8005, 0, 0, \h2F97B, \h264DA, 0, 0,
    \h2F97C, \h26523, 0, 0, \h2F97D, \h8060, 0, 0, \h2F97E, \h265A8, 0, 0,
    \h2F97F, \h8070, 0, 0, \h2F980, \h2335F, 0, 0, \h2F981, \h43D5, 0, 0,
    \h2F982, \h80B2, 0, 0, \h2F983, \h8103, 0, 0, \h2F984, \h440B, 0, 0,
    \h2F985, \h813E, 0, 0, \h2F986, \h5AB5, 0, 0, \h2F987, \h267A7, 0, 0,
    \h2F988, \h267B5, 0, 0, \h2F989, \h23393, 0, 0, \h2F98A, \h2339C, 0, 0,
    \h2F98B, \h8201, 0, 0, \h2F98C, \h8204, 0, 0, \h2F98D, \h8F9E, 0, 0,
    \h2F98E, \h446B, 0, 0, \h2F98F, \h8291, 0, 0, \h2F990, \h828B, 0, 0,
    \h2F991, \h829D, 0, 0, \h2F992, \h52B3, 0, 0, \h2F993, \h82B1, 0, 0,
    \h2F994, \h82B3, 0, 0, \h2F995, \h82BD, 0, 0, \h2F996, \h82E6, 0, 0,
    \h2F997, \h26B3C, 0, 0, \h2F998, \h82E5, 0, 0, \h2F999, \h831D, 0, 0,
    \h2F99A, \h8363, 0, 0, \h2F99B, \h83AD, 0, 0, \h2F99C, \h8323, 0, 0,
    \h2F99D, \h83BD, 0, 0, \h2F99E, \h83E7, 0, 0, \h2F99F, \h8457, 0, 0,
    \h2F9A0, \h8353, 0, 0, \h2F9A1, \h83CA, 0, 0, \h2F9A2, \h83CC, 0, 0,
    \h2F9A3, \h83DC, 0, 0, \h2F9A4, \h26C36, 0, 0, \h2F9A5, \h26D6B, 0, 0,
    \h2F9A6, \h26CD5, 0, 0, \h2F9A7, \h452B, 0, 0, \h2F9A8, \h84F1, 0, 0,
    \h2F9A9, \h84F3, 0, 0, \h2F9AA, \h8516, 0, 0, \h2F9AB, \h273CA, 0, 0,
    \h2F9AC, \h8564, 0, 0, \h2F9AD, \h26F2C, 0, 0, \h2F9AE, \h455D, 0, 0,
    \h2F9AF, \h4561, 0, 0, \h2F9B0, \h26FB1, 0, 0, \h2F9B1, \h270D2, 0, 0,
    \h2F9B2, \h456B, 0, 0, \h2F9B3, \h8650, 0, 0, \h2F9B4, \h865C, 0, 0,
    \h2F9B5, \h8667, 0, 0, \h2F9B6, \h8669, 0, 0, \h2F9B7, \h86A9, 0, 0,
    \h2F9B8, \h8688, 0, 0, \h2F9B9, \h870E, 0, 0, \h2F9BA, \h86E2, 0, 0,
    \h2F9BB, \h8779, 0, 0, \h2F9BC, \h8728, 0, 0, \h2F9BD, \h876B, 0, 0,
    \h2F9BE, \h8786, 0, 0, \h2F9BF, \h45D7, 0, 0, \h2F9C0, \h87E1, 0, 0,
    \h2F9C1, \h8801, 0, 0, \h2F9C2, \h45F9, 0, 0, \h2F9C3, \h8860, 0, 0,
    \h2F9C4, \h8863, 0, 0, \h2F9C5, \h27667, 0, 0, \h2F9C6, \h88D7, 0, 0,
    \h2F9C7, \h88DE, 0, 0, \h2F9C8, \h4635, 0, 0, \h2F9C9, \h88FA, 0, 0,
    \h2F9CA, \h34BB, 0, 0, \h2F9CB, \h278AE, 0, 0, \h2F9CC, \h27966, 0, 0,
    \h2F9CD, \h46BE, 0, 0, \h2F9CE, \h46C7, 0, 0, \h2F9CF, \h8AA0, 0, 0,
    \h2F9D0, \h8AED, 0, 0, \h2F9D1, \h8B8A, 0, 0, \h2F9D2, \h8C55, 0, 0,
    \h2F9D3, \h27CA8, 0, 0, \h2F9D4, \h8CAB, 0, 0, \h2F9D5, \h8CC1, 0, 0,
    \h2F9D6, \h8D1B, 0, 0, \h2F9D7, \h8D77, 0, 0, \h2F9D8, \h27F2F, 0, 0,
    \h2F9D9, \h20804, 0, 0, \h2F9DA, \h8DCB, 0, 0, \h2F9DB, \h8DBC, 0, 0,
    \h2F9DC, \h8DF0, 0, 0, \h2F9DD, \h208DE, 0, 0, \h2F9DE, \h8ED4, 0, 0,
    \h2F9DF, \h8F38, 0, 0, \h2F9E0, \h285D2, 0, 0, \h2F9E1, \h285ED, 0, 0,
    \h2F9E2, \h9094, 0, 0, \h2F9E3, \h90F1, 0, 0, \h2F9E4, \h9111, 0, 0,
    \h2F9E5, \h2872E, 0, 0, \h2F9E6, \h911B, 0, 0, \h2F9E7, \h9238, 0, 0,
    \h2F9E8, \h92D7, 0, 0, \h2F9E9, \h92D8, 0, 0, \h2F9EA, \h927C, 0, 0,
    \h2F9EB, \h93F9, 0, 0, \h2F9EC, \h9415, 0, 0, \h2F9ED, \h28BFA, 0, 0,
    \h2F9EE, \h958B, 0, 0, \h2F9EF, \h4995, 0, 0, \h2F9F0, \h95B7, 0, 0,
    \h2F9F1, \h28D77, 0, 0, \h2F9F2, \h49E6, 0, 0, \h2F9F3, \h96C3, 0, 0,
    \h2F9F4, \h5DB2, 0, 0, \h2F9F5, \h9723, 0, 0, \h2F9F6, \h29145, 0, 0,
    \h2F9F7, \h2921A, 0, 0, \h2F9F8, \h4A6E, 0, 0, \h2F9F9, \h4A76, 0, 0,
    \h2F9FA, \h97E0, 0, 0, \h2F9FB, \h2940A, 0, 0, \h2F9FC, \h4AB2, 0, 0,
    \h2F9FD, \h29496, 0, 0, \h2F9FE, \h980B, 0, 0, \h2F9FF, \h980B, 0, 0,
    \h2FA00, \h9829, 0, 0, \h2FA01, \h295B6, 0, 0, \h2FA02, \h98E2, 0, 0,
    \h2FA03, \h4B33, 0, 0, \h2FA04, \h9929, 0, 0, \h2FA05, \h99A7, 0, 0,
    \h2FA06, \h99C2, 0, 0, \h2FA07, \h99FE, 0, 0, \h2FA08, \h4BCE, 0, 0,
    \h2FA09, \h29B30, 0, 0, \h2FA0A, \h9B12, 0, 0, \h2FA0B, \h9C40, 0, 0,
    \h2FA0C, \h9CFD, 0, 0, \h2FA0D, \h4CCE, 0, 0, \h2FA0E, \h4CED, 0, 0,
    \h2FA0F, \h9D67, 0, 0, \h2FA10, \h2A0CE, 0, 0, \h2FA11, \h4CF8, 0, 0,
    \h2FA12, \h2A105, 0, 0, \h2FA13, \h2A20E, 0, 0, \h2FA14, \h2A291, 0, 0,
    \h2FA15, \h9EBB, 0, 0, \h2FA16, \h4D56, 0, 0, \h2FA17, \h9EF9, 0, 0,
    \h2FA18, \h9EFE, 0, 0, \h2FA19, \h9F05, 0, 0, \h2FA1A, \h9F0F, 0, 0,
    \h2FA1B, \h9F16, 0, 0, \h2FA1C, \h9F3B, 0, 0, \h2FA1D, \h2A600, 0, 0 >>

Digits == {"0","1","2","3","4","5","6","7","8","9"}

AsciiLetters ==
  {"a","b","c","d","e","f","g","h","i","j","k","l","m",
   "n","o","p","q","r","s","t","u","v","w","x","y","z",
   "A","B","C","D","E","F","G","H","I","J","K","L","M",
   "N","O","P","Q","R","S","T","U","V","W","X","Y","Z"}

\* \d and [0-9]
IsDigit(c) == c \in Digits

\* \w of a non-unicode regular expression: [A-Za-z0-9_]
IsWordChar(c) == c \in AsciiLetters \cup Digits \cup {"_"}

\* the complement of [\W_]
IsAlnum(c) == c \in AsciiLetters \cup Digits

\* the WhiteSpace and LineTerminator characters of ECMAScript (a control
\* character is written by its escape, where there is one, or as U+XXXX)
WhiteSpace ==
  {" ", "\t", "\n", "\f", "\r", "U+0009", "U+000A", "U+000B", "U+000C", "U+000D",
   "U+00A0", "U+1680", "U+2000", "U+2001", "U+2002", "U+2003", "U+2004", "U+2005",
   "U+2006", "U+2007", "U+2008", "U+2009", "U+200A", "U+2028", "U+2029", "U+202F",
   "U+205F", "U+3000", "U+FEFF"}

\* \s, and what trim removes
IsSpace(c) == c \in WhiteSpace

\* Array.prototype.flatMap / concatenation of a sequence of sequences
RECURSIVE Flatten(_)
Flatten(ss) == IF ss = <<>> THEN <<>> ELSE Head(ss) \o Flatten(Tail(ss))

\* the hexadecimal digits, in order
HexDigits == <<"0", "1", "2", "3", "4", "5", "6", "7", "8", "9", "A", "B", "C", "D", "E", "F">>

\* the name of the code unit of number n, for a code unit written "U+XXXX"
UnitName(n) ==
  "U+" \o HexDigits[(n \div 4096) + 1] \o HexDigits[((n \div 256) % 16) + 1]
       \o HexDigits[((n \div 16) % 16) + 1] \o HexDigits[(n % 16) + 1]

\* the code units the model computes with are the Hangul syllables and the
\* surrogates, all within U+A000 to U+DFFF: UnitsWithDigit[k][d] are the code units
\* of that range whose hexadecimal digit of weight 16^k is d
UnitsWithDigit ==
  [k \in 0..3 |-> [d \in 0..15 |->
     {UnitName(n) :
        n \in {((16 ^ (k + 1)) * q) + ((16 ^ k) * d) + r :
                 q \in (\hA000 \div (16 ^ (k + 1)))..(\hDFFF \div (16 ^ (k + 1))),
                 r \in 0..((16 ^ k) - 1)} \cap (\hA000..\hDFFF)}]]

\* the number of a code unit of U+A000 to U+DFFF
UnitNumber(c) ==
  LET number(digit) == 4096 * digit[3] + 256 * digit[2] + 16 * digit[1] + digit[0]
  IN number([k \in 0..3 |-> CHOOSE d \in 0..15 : c \in UnitsWithDigit[k][d]])

\* the first code units of the surrogate pairs
HighSurrogates == {UnitName(n) : n \in \hD800..\hDBFF}

\* the second code units of the surrogate pairs
LowSurrogates == {UnitName(n) : n \in \hDC00..\hDFFF}

\* the precomposed Hangul syllables
HangulSyllables == {UnitName(n) : n \in \hAC00..\hD7A3}

\* the code point of the character whose surrogate pair starts at place i of s, and 0
\* where no pair starts (a surrogate without its other half is a character by itself)
SupplementaryAt(s, i) ==
  LET point(unit) == \h10000 + 1024 * (unit[0] - \hD800) + (unit[1] - \hDC00)
  IN IF i >= 1 /\ i < Len(s) /\ s[i] \in HighSurrogates /\ s[i + 1] \in LowSurrogates
     THEN point([k \in 0..1 |-> UnitNumber(s[i + k])])
     ELSE 0

\* what a table of ranges <<first, last, v>> gives for the code point n: the v of
\* the range that holds n, and 0 when no range does
RangeValue(table, n) ==
  IF \E r \in DOMAIN table : n >= table[r][1] /\ n <= table[r][2]
  THEN table[CHOOSE r \in DOMAIN table : n >= table[r][1] /\ n <= table[r][2]][3]
  ELSE 0

\* the code units of the character of code point n, which is not one written by
\* itself: one code unit in the Basic Multilingual Plane, a surrogate pair outside
CodeUnits(n) ==
  IF n < \h10000 THEN <<UnitName(n)>>
  ELSE <<UnitName(\hD800 + ((n - \h10000) \div 1024)),
         UnitName(\hDC00 + ((n - \h10000) % 1024))>>

\* the place of each character of UpperLetters in the table
UpperIndex ==
  [c \in {UpperLetters[k] : k \in DOMAIN UpperLetters} |->
     CHOOSE k \in DOMAIN UpperLetters : UpperLetters[k] = c]

\* the condition Final_Sigma of the Unicode case mapping at position i of s: the
\* nearest character before i that is not Case_Ignorable is Cased, and the nearest
\* such character after i is not
FinalSigma(s, i) ==
  LET kinds(point, ignorable, cased) ==
        [j \in 1..Len(s) |->
           IF point[j - 1] # 0 THEN "ignorable"
           ELSE IF point[j] # 0
           THEN (IF point[j] \in ignorable THEN "ignorable"
                 ELSE IF point[j] \in cased THEN "cased"
                 ELSE "other")
           ELSE IF s[j] \in CaseIgnorable THEN "ignorable"
           ELSE IF s[j] \in CasedLetters THEN "cased"
           ELSE "other"]
      between(kind, before, after) ==
        /\ before # {}
        /\ kind[CHOOSE j \in before : \A k \in before : k <= j] = "cased"
        /\ ~ (/\ after # {}
              /\ kind[CHOOSE j \in after : \A k \in after : j <= k] = "cased")
      holds(kind) ==
        between(kind, {j \in 1..(i - 1) : kind[j] # "ignorable"},
                      {j \in (i + 1)..Len(s) : kind[j] # "ignorable"})
  IN holds(kinds([j \in 0..Len(s) |-> SupplementaryAt(s, j)],
                 SupplementaryCaseIgnorable, SupplementaryCased))

\* String.prototype.toLowerCase: the lowercase mapping of each character, which is
\* two code units for U+0130 and depends on the context for the capital sigma; a
\* character outside the Basic Multilingual Plane is mapped as a whole
toLowerCase(s) ==
  LET lowered(point, final, lower, supplementary) ==
        Flatten([i \in 1..Len(s) |->
          IF s[i] = "U+03A3" /\ final[i] THEN <<"U+03C2">>
          ELSE IF s[i] = "U+0130" THEN <<"i", "U+0307">>
          ELSE IF s[i] \in DOMAIN UpperIndex THEN <<lower[UpperIndex[s[i]]]>>
          ELSE IF point[i] # 0
          THEN CodeUnits(point[i] + RangeValue(supplementary, point[i]))
          ELSE IF point[i - 1] # 0 THEN <<>>
          ELSE <<s[i]>>])
  IN lowered([i \in 0..Len(s) |-> SupplementaryAt(s, i)],
             [i \in 1..Len(s) |-> FinalSigma(s, i)],
             LowerLetters, SupplementaryUpper)

\* the place of each character of AccentedLetters in the table
AccentIndex ==
  [c \in {AccentedLetters[k] : k \in DOMAIN AccentedLetters} |->
     CHOOSE k \in DOMAIN AccentedLetters : AccentedLetters[k] = c]

\* the canonical combining class of a character of the Basic Multilingual Plane that
\* is not a mark U+0300 to U+036F
CombiningClassOf ==
  [c \in {ReorderedMarks[k] : k \in DOMAIN ReorderedMarks} |->
     CombiningClasses[CHOOSE k \in DOMAIN ReorderedMarks : ReorderedMarks[k] = c]]

\* the canonical decomposition of a Hangul syllable, which is computed: the syllable
\* of number U+AC00 + 588 l + 28 v + t is the leading consonant U+1100 + l, the vowel
\* U+1161 + v and, unless t is 0, the trailing consonant U+11A7 + t
hangulDecomposition(c) ==
  LET jamo(n) ==
        <<UnitName(\h1100 + (n \div 588)), UnitName(\h1161 + ((n % 588) \div 28))>>
        \o (IF n % 28 = 0 THEN <<>> ELSE <<UnitName(\h11A7 + (n % 28))>>)
  IN jamo(UnitNumber(c) - \hAC00)

\* the canonical ordering of NFD: within each run of marks (characters of a class
\* other than 0) the marks are put in the order of their classes, marks of one
\* class keeping their order; the two code units of a surrogate pair have the class
\* of their character and stay together
canonicalOrder(d) ==
  LET classes(point, class, supplementary) ==
        [i \in 1..Len(d) |->
           IF d[i] \in DOMAIN class THEN class[d[i]]
           ELSE RangeValue(supplementary, IF point[i] # 0 THEN point[i] ELSE point[i - 1])]
      placeIn(classAt, i, run) ==
        Cardinality({j \in 1..Len(d) : j \notin run /\ j < i})
        + Cardinality({j \in run :
             \/ classAt[j] < classAt[i]
             \/ classAt[j] = classAt[i] /\ j <= i})
      places(classAt) ==
        [i \in 1..Len(d) |->
           IF classAt[i] = 0 THEN i
           ELSE placeIn(classAt, i,
                  {j \in 1..Len(d) :
                     \A k \in (IF j < i THEN j ELSE i)..(IF j < i THEN i ELSE j) :
                       classAt[k] # 0})]
      ordered(classAt, place) ==
        IF \A i \in 1..Len(d) : classAt[i] = 0 THEN d
        ELSE [p \in 1..Len(d) |-> d[CHOOSE i \in 1..Len(d) : place[i] = p]]
      sorted(classAt) == ordered(classAt, places(classAt))
  IN sorted(classes([i \in 0..Len(d) |-> SupplementaryAt(d, i)],
                    CombiningClassOf, SupplementaryMarks))

\* .normalize("NFD").replace(/[\u0300-\u036f]/g, ""): each character gives what is
\* left of its decomposition, the marks that stay are put in canonical order, and
\* U+034F (combining grapheme joiner), the one character of U+0300 to U+036F that is
\* of class 0, so that no mark moves across it, goes last
stripAccents(s) ==
  LET rowOf(table, n) ==
        (4 * (CHOOSE r \in 1..(Len(table) \div 4) : table[(4 * r) - 3] = n)) - 3
      rests(point, table) ==
        [i \in 0..Len(s) |->
           IF point[i] # 0 /\ \E r \in 1..(Len(table) \div 4) : table[(4 * r) - 3] = point[i]
           THEN Flatten([j \in 1..3 |->
                  IF table[rowOf(table, point[i]) + j] = 0 THEN <<>>
                  ELSE CodeUnits(table[rowOf(table, point[i]) + j])])
           ELSE <<>>]
      decomposition(rest, base, hangul) ==
        Flatten([i \in 1..Len(s) |->
           IF s[i] = "U+034F" THEN <<s[i]>>
           ELSE IF s[i] \in DOMAIN AccentIndex THEN base[AccentIndex[s[i]]]
           ELSE IF s[i] \in HangulSyllables THEN hangul[i]
           ELSE IF rest[i] # <<>> THEN rest[i]
           ELSE IF rest[i - 1] # <<>> THEN <<>>
           ELSE <<s[i]>>])
      NotGraphemeJoiner(c) == c # "U+034F"
  IN SelectSeq(
       canonicalOrder(
         decomposition(rests([i \in 0..Len(s) |-> SupplementaryAt(s, i)],
                             SupplementaryDecompositions),
                       AccentBase,
                       [i \in 1..Len(s) |-> hangulDecomposition(s[i])])),
       NotGraphemeJoiner)

\* String.prototype.includes
includes(hay, needle) ==
  \E i \in 0..(Len(hay) - Len(needle)) : SubSeq(hay, i + 1, i + Len(needle)) = needle

RECURSIVE SkipNonAlnum(_)
SkipNonAlnum(s) ==
  IF s = <<>> \/ IsAlnum(Head(s)) THEN s ELSE SkipNonAlnum(Tail(s))

RECURSIVE collapseNonAlnum(_)
\* .replace(/[\W_]+/g, ' '): every maximal run of [\W_] becomes one space
collapseNonAlnum(s) ==
  IF s = <<>> THEN <<>>
  ELSE IF IsAlnum(Head(s)) THEN <<Head(s)>> \o collapseNonAlnum(Tail(s))
  ELSE <<" ">> \o collapseNonAlnum(SkipNonAlnum(s))

\* .replace(/[\W_]+/g, ''): every [\W_] is removed
removeNonAlnum(s) == SelectSeq(s, IsAlnum)

\* .replace(/[^0-9]/g, '')
digitsOnly(s) == SelectSeq(s, IsDigit)

RECURSIVE SkipSpaces(_)
SkipSpaces(s) ==
  IF s = <<>> \/ ~IsSpace(Head(s)) THEN s ELSE SkipSpaces(Tail(s))

RECURSIVE splitWhitespace(_, _)
\* .split(/\s+/), cur being the piece under construction; the pieces before a
\* leading and after a trailing run of spaces are empty strings, as in JavaScript
splitWhitespace(s, cur) ==
  IF s = <<>> THEN <<cur>>
  ELSE IF IsSpace(Head(s)) THEN <<cur>> \o splitWhitespace(SkipSpaces(s), <<>>)
  ELSE splitWhitespace(Tail(s), Append(cur, Head(s)))

RECURSIVE splitOn(_, _, _)
\* .split(sep) for a separator that is one character of the set seps
splitOn(s, seps, cur) ==
  IF s = <<>> THEN <<cur>>
  ELSE IF Head(s) \in seps THEN <<cur>> \o splitOn(Tail(s), seps, <<>>)
  ELSE splitOn(Tail(s), seps, Append(cur, Head(s)))

NonEmpty(t) == Len(t) > 0

RECURSIVE trimStart(_)
trimStart(s) == IF s = <<>> \/ ~IsSpace(Head(s)) THEN s ELSE trimStart(Tail(s))

RECURSIVE trimEnd(_)
trimEnd(s) ==
  IF s = <<>> \/ ~IsSpace(s[Len(s)]) THEN s ELSE trimEnd(SubSeq(s, 1, Len(s) - 1))

\* String.prototype.trim
trim(s) == trimEnd(trimStart(s))

\* String.prototype.padStart(2, '0')
padStart2(s) == IF Len(s) >= 2 THEN s ELSE IF Len(s) = 1 THEN <<"0">> \o s ELSE <<"0","0">>

(***************************************************************************)
(* Optional values                                                         *)
(***************************************************************************)
Absent == <<>>

Some(v) == <<v>>

IsSome(o) == Len(o) = 1

Get(o) == o[1]

(***************************************************************************)
(* matcher: constants                                                      *)
(***************************************************************************)
IGNORED_TOKENS == {
    <<"f","w">>, <<"f","w","d">>, <<"r","e">>, <<"e","n","c">>, <<"t","r">>,
    <<"s","u","b","j","e","c","t">>, <<"a","s","s","u","n","t","o">>,
    <<"e","n","c","a","m","i","n","h","a","d","o">>, <<"c","o","p","y">>,
    <<"c","o","p","i","a">>, <<"d","e">>, <<"d","o">>, <<"d","a">>, <<"d","o","s">>,
    <<"d","a","s">>, <<"e">>, <<"o">>, <<"a">>, <<"o","s">>, <<"a","s">>, <<"e","m">>,
    <<"n","a">>, <<"n","o">>, <<"n","a","s">>, <<"n","o","s">>, <<"c","o","m">>,
    <<"p","a","r","a">>, <<"p","o","r">>, <<"o","f">>, <<"t","h","e">>, <<"a","n","d">>,
    <<"i","n">>, <<"a","t">>, <<"t","o">>, <<"f","o","r">>, <<"w","i","t","h">>, <<"b","y">>,
    <<"f","r","o","m">> }

NotIgnored(t) == t \notin IGNORED_TOKENS

\* the opening and the closing class of QUOTE_REGEX: ["U+201C] and ["U+201D]
OpenQuotes == {"\"", "U+201C"}

CloseQuotes == {"\"", "U+201D"}

\* the separator class [\/\-\.] of DATE_REGEX
DateSeparators == {"/", "-", "."}

(***************************************************************************)
(* Numbers.  A score of the code is an IEEE 754 double.  Here a double is  *)
(* held exactly, as [m |-> significand, e |-> exponent]: the significand   *)
(* is a binary numeral of 53 digits, the most significant first and equal  *)
(* to 1, and the number is m * 2^e.  Zero has the empty numeral.  The      *)
(* scores are positive and far from the limits of the format: negative     *)
(* numbers, subnormal numbers, infinities and NaN do not occur.            *)
(***************************************************************************)
RECURSIVE BinOfNat(_)
\* the binary numeral of a natural number: 0 and 1, most significant first
BinOfNat(n) == IF n = 0 THEN <<>> ELSE Append(BinOfNat(n \div 2), n % 2)

RECURSIVE BinTrim(_)
\* a numeral without its leading zeros
BinTrim(b) == IF b = <<>> \/ b[1] = 1 THEN b ELSE BinTrim(Tail(b))

Zeros(n) == [i \in 1..n |-> 0]

\* the sum of two numerals: a carry enters digit i when a later digit makes one (both
\* digits are 1) and every digit between passes it on (one of the two digits is 1)
BinAdd(a, b) ==
  LET n == IF Len(a) >= Len(b) THEN Len(a) ELSE Len(b)
      x == Zeros(n - Len(a)) \o a
      y == Zeros(n - Len(b)) \o b
      carry(i) == IF \E j \in (i + 1)..n :
                       x[j] + y[j] = 2 /\ \A k \in (i + 1)..(j - 1) : x[k] + y[k] = 1
                  THEN 1 ELSE 0
  IN BinTrim(<<carry(0)>> \o [i \in 1..n |-> (x[i] + y[i] + carry(i)) % 2])

\* a < b, for numerals without leading zeros
BinLess(a, b) ==
  \/ Len(a) < Len(b)
  \/ /\ Len(a) = Len(b)
     /\ \E i \in 1..Len(a) : a[i] < b[i] /\ \A j \in 1..(i - 1) : a[j] = b[j]

\* Round to nearest, ties to even: the double nearest to b * 2^e, plus a rest below
\* the last digit of b when inexact is true
RoundDouble(b, e, inexact) ==
  IF b = <<>> THEN [m |-> <<>>, e |-> 0]
  ELSE IF Len(b) <= 53 THEN [m |-> b \o Zeros(53 - Len(b)), e |-> e - (53 - Len(b))]
  ELSE LET kept == SubSeq(b, 1, 53)
           rest == inexact \/ \E i \in 55..Len(b) : b[i] = 1
           up == b[54] = 1 /\ (rest \/ kept[53] = 1)
           r == IF up THEN BinAdd(kept, <<1>>) ELSE kept
       IN IF Len(r) = 54
          THEN [m |-> SubSeq(r, 1, 53), e |-> e + Len(b) - 52]
          ELSE [m |-> r, e |-> e + Len(b) - 53]

RECURSIVE DivideFrom(_, _, _, _)
\* the long division in base 2, from the quotient b * 2^e and the remainder r on,
\* until it ends or gives 55 digits
DivideFrom(b, r, n, e) ==
  IF r = 0 \/ Len(b) >= 55 THEN RoundDouble(b, e, r # 0)
  ELSE DivideFrom(BinTrim(Append(b, (2 * r) \div n)), (2 * r) % n, n, e - 1)

\* x / y of two integers held as doubles, and the value of a decimal literal
\* (0.55 is NumberOf(55, 100)): the double nearest to the quotient
NumberOf(m, n) == DivideFrom(BinOfNat(m \div n), m % n, n, 0)

\* x + y
NumAdd(x, y) ==
  IF x.m = <<>> THEN y
  ELSE IF y.m = <<>> THEN x
  ELSE LET hi == IF x.e >= y.e THEN x ELSE y
           lo == IF x.e >= y.e THEN y ELSE x
       IN IF hi.e - lo.e > 55 THEN hi
          ELSE RoundDouble(BinAdd(hi.m \o Zeros(hi.e - lo.e), lo.m), lo.e, FALSE)

\* x < y
NumLess(x, y) ==
  IF y.m = <<>> THEN FALSE
  ELSE IF x.m = <<>> THEN TRUE
  ELSE x.e < y.e \/ (x.e = y.e /\ BinLess(x.m, y.m))

\* x >= y
NumAtLeast(x, y) == ~NumLess(x, y)

\* matchCount / tokens.length
Coverage(m, n) == NumberOf(m, n)

DATE_BOOST == NumberOf(40, 100)

EXTENSION_BOOST == NumberOf(20, 100)

SEQUENCE_BOOST == NumberOf(15, 100)

SCORE_THRESHOLD == NumberOf(55, 100)

HIGH_SCORE == NumberOf(12, 10)

WIN_MARGIN == NumberOf(1, 10)

\* Math.max
MaxOf(a, b) == IF NumLess(a, b) THEN b ELSE a

(***************************************************************************)
(* matcher: extractMetadata                                                *)
(***************************************************************************)
WordAt(s, p) == p >= 1 /\ p <= Len(s) /\ IsWordChar(s[p])

\* \b between the characters p-1 and p
WordBoundary(s, p) == WordAt(s, p - 1) /= WordAt(s, p)

DigitsAt(s, i, n) == i + n - 1 <= Len(s) /\ \A k \in i..(i + n - 1) : IsDigit(s[k])

SeparatorAt(s, i) == i <= Len(s) /\ s[i] \in DateSeparators

\* (\d{1,2})[\/\-\.](\d{1,2})[\/\-\.](\d{4})\b with a and b digits in the two groups
DayFirstAt(s, i, a, b) ==
  /\ DigitsAt(s, i, a) /\ SeparatorAt(s, i + a)
  /\ DigitsAt(s, i + a + 1, b) /\ SeparatorAt(s, i + a + b + 1)
  /\ DigitsAt(s, i + a + b + 2, 4) /\ WordBoundary(s, i + a + b + 6)

\* (\d{4})[\/\-\.](\d{1,2})[\/\-\.](\d{1,2})\b with b and c digits in the last groups
YearFirstAt(s, i, b, c) ==
  /\ DigitsAt(s, i, 4) /\ SeparatorAt(s, i + 4)
  /\ DigitsAt(s, i + 5, b) /\ SeparatorAt(s, i + b + 5)
  /\ DigitsAt(s, i + b + 6, c) /\ WordBoundary(s, i + b + c + 6)

\* DATE_REGEX tried at position i: the index of the last character of the match, or
\* 0. The alternatives and the greedy quantifiers are tried in the regex's order.
DATE_REGEX(s, i) ==
  IF ~WordBoundary(s, i) THEN 0
  ELSE IF DayFirstAt(s, i, 2, 2) THEN i + 9
  ELSE IF DayFirstAt(s, i, 2, 1) THEN i + 8
  ELSE IF DayFirstAt(s, i, 1, 2) THEN i + 8
  ELSE IF DayFirstAt(s, i, 1, 1) THEN i + 7
  ELSE IF YearFirstAt(s, i, 2, 2) THEN i + 9
  ELSE IF YearFirstAt(s, i, 2, 1) THEN i + 8
  ELSE IF YearFirstAt(s, i, 1, 2) THEN i + 8
  ELSE IF YearFirstAt(s, i, 1, 1) THEN i + 7
  ELSE 0

RECURSIVE extractDates(_, _)
\* while ((match = DATE_REGEX.exec(cellContent)) !== null) dates.push(match[0])
extractDates(s, i) ==
  IF i > Len(s) THEN <<>>
  ELSE LET e == DATE_REGEX(s, i)
       IN IF e > 0 THEN <<SubSeq(s, i, e)>> \o extractDates(s, e + 1)
          ELSE extractDates(s, i + 1)

RECURSIVE QuoteBodyEnd(_, _)
\* [^"U+201D]+ from position k: the index of the last character it takes
QuoteBodyEnd(s, k) ==
  IF k > Len(s) \/ s[k] \in CloseQuotes THEN k - 1 ELSE QuoteBodyEnd(s, k + 1)

\* a variant that takes the end of the text for a closing quote
QUOTE_REGEX_OpenEnded(s, i) ==
  IF s[i] \notin OpenQuotes THEN 0
  ELSE LET j == QuoteBodyEnd(s, i + 1)
       IN IF j >= i + 1 THEN j + 1 ELSE 0

\* QUOTE_REGEX tried at position i: the index of the closing quote, or 0
QUOTE_REGEX(s, i) ==
  IF s[i] \notin OpenQuotes THEN 0
  ELSE LET j == QuoteBodyEnd(s, i + 1)
       IN IF j >= i + 1 /\ j + 1 <= Len(s) THEN j + 1 ELSE 0

RECURSIVE extractQuotes(_, _)
\* while ((match = QUOTE_REGEX.exec(cellContent)) !== null)
\*   if (match[1] && match[1].trim().length > 0) queries.push(match[1].trim())
extractQuotes(s, i) ==
  IF i > Len(s) THEN <<>>
  ELSE LET e == QUOTE_REGEX(s, i)
       IN IF e > 0
          THEN LET body == trim(SubSeq(s, i + 1, e - 1))
               IN (IF Len(body) > 0 THEN <<body>> ELSE <<>>) \o extractQuotes(s, e + 1)
          ELSE extractQuotes(s, i + 1)

extractMetadata(cellContent) ==
  [queries |-> extractQuotes(cellContent, 1), dates |-> extractDates(cellContent, 1)]

(***************************************************************************)
(* matcher: getDatePermutations, tokenize                                  *)
(***************************************************************************)
getDatePermutations(dateStr) ==
  LET cleanParts == SelectSeq(splitOn(dateStr, {"/", "-", "."} \cup WhiteSpace, <<>>), NonEmpty)
  IN IF Len(cleanParts) /= 3 THEN <<dateStr>>
     ELSE LET yearFirst == Len(cleanParts[1]) = 4
              year  == IF yearFirst THEN cleanParts[1] ELSE cleanParts[3]
              month == padStart2(cleanParts[2])
              day   == padStart2(IF yearFirst THEN cleanParts[3] ELSE cleanParts[1])
          IN << day \o month \o year,
                year \o month \o day,
                day \o <<"-">> \o month \o <<"-">> \o year,
                year \o <<"-">> \o month \o <<"-">> \o day,
                year \o <<"_">> \o month \o <<"_">> \o day,
                year \o <<".">> \o month \o <<".">> \o day,
                day \o <<"_">> \o month \o <<"_">> \o year,
                day \o <<".">> \o month \o <<".">> \o year,
                day \o <<" ">> \o month \o <<" ">> \o year >>

tokenize(str) ==
  SelectSeq(
    SelectSeq(splitWhitespace(collapseNonAlnum(stripAccents(toLowerCase(str))), <<>>),
              NonEmpty),
    NotIgnored)
(***************************************************************************)
(* matcher: scoring of one (query, file) pair                              *)
(***************************************************************************)
\* str.split('.').pop()?.toLowerCase()
extensionOf(str) ==
  LET parts == splitOn(str, {"."}, <<>>) IN toLowerCase(parts[Len(parts)])

\* dateSearchTerms.some(term => cleanFileName.includes(cleanTerm) && cleanTerm.length >= 6)
dateMatch(dateSearchTerms, fileName) ==
  LET cleanFileName == digitsOnly(fileName)
  IN \E k \in 1..Len(dateSearchTerms) :
       LET cleanTerm == digitsOnly(dateSearchTerms[k])
       IN includes(cleanFileName, cleanTerm) /\ Len(cleanTerm) >= 6

\* queryExt && fileExt && queryExt === fileExt && queryExt.length > 2
extensionMatch(query, fileName) ==
  LET queryExt == extensionOf(query)
      fileExt == extensionOf(fileName)
  IN Len(queryExt) > 0 /\ Len(fileExt) > 0 /\ queryExt = fileExt /\ Len(queryExt) > 2

\* normFile.includes(normQuery)
sequenceMatch(query, fileName) ==
  includes(removeNonAlnum(toLowerCase(fileName)), removeNonAlnum(toLowerCase(query)))

\* Math.max(fileCoverage, queryCoverage)
baseScore(matchCount, fileTokens, queryTokens) ==
  MaxOf(Coverage(matchCount, Len(fileTokens)), Coverage(matchCount, Len(queryTokens)))

\* queryTokens.filter(qt => fileTokens.includes(qt)).length
intersectionCount(queryTokens, fileTokens) ==
  Cardinality({i \in 1..Len(queryTokens) :
                 \E k \in 1..Len(fileTokens) : fileTokens[k] = queryTokens[i]})

\* a variant: the date boost is no larger than the extension boost
dateBoostSmall(dateSearchTerms, fileName) ==
  IF dateMatch(dateSearchTerms, fileName) THEN EXTENSION_BOOST ELSE NumberOf(0, 1)

dateBoost(dateSearchTerms, fileName) ==
  IF dateMatch(dateSearchTerms, fileName) THEN DATE_BOOST ELSE NumberOf(0, 1)

extensionBoost(query, fileName) ==
  IF extensionMatch(query, fileName) THEN EXTENSION_BOOST ELSE NumberOf(0, 1)

sequenceBoost(query, fileName) ==
  IF sequenceMatch(query, fileName) THEN SEQUENCE_BOOST ELSE NumberOf(0, 1)

\* The body of the two loops for one query and one file, up to the threshold:
\* Absent where the code continues (no query token, no file token, no common
\* token), else Some(score) with the boosts added in the order of the code (a boost
\* that does not apply is the number 0, and x + 0 is x).
pairScore(query, dateSearchTerms, file) ==
  LET queryTokens == tokenize(query)
      fileTokens == tokenize(file.name)
      matchCount == intersectionCount(queryTokens, fileTokens)
  IN IF Len(queryTokens) = 0 \/ Len(fileTokens) = 0 \/ matchCount = 0 THEN Absent
     ELSE Some(NumAdd(NumAdd(NumAdd(baseScore(matchCount, fileTokens, queryTokens),
                                    dateBoost(dateSearchTerms, file.name)),
                             extensionBoost(query, file.name)),
                      sequenceBoost(query, file.name)))

\* a variant: the threshold is 0.50
passesHalf(score) == NumAtLeast(score, NumberOf(50, 100))

\* if (score >= 0.55) allCandidates.push({ file, score })
passesThreshold(score) == NumAtLeast(score, SCORE_THRESHOLD)

RECURSIVE scoreFiles(_, _, _, _)
\* for (const file of availableFiles), from the k-th file on
scoreFiles(query, dateSearchTerms, availableFiles, k) ==
  IF k > Len(availableFiles) THEN <<>>
  ELSE LET sc == pairScore(query, dateSearchTerms, availableFiles[k])
       IN (IF IsSome(sc) /\ passesThreshold(Get(sc))
           THEN <<[file |-> availableFiles[k], score |-> Get(sc)]>>
           ELSE <<>>)
          \o scoreFiles(query, dateSearchTerms, availableFiles, k + 1)

RECURSIVE scoreQueries(_, _, _, _)
\* for (const query of queries), from the q-th query on
scoreQueries(queries, dateSearchTerms, availableFiles, q) ==
  IF q > Len(queries) THEN <<>>
  ELSE scoreFiles(queries[q], dateSearchTerms, availableFiles, 1)
       \o scoreQueries(queries, dateSearchTerms, availableFiles, q + 1)

\* dates.flatMap(d => getDatePermutations(d))
dateSearchTermsOf(dates) ==
  Flatten([i \in 1..Len(dates) |-> getDatePermutations(dates[i])])

\* the value of score at the threshold test of each iteration (query q, file i) of
\* the two loops, Absent where the iteration is skipped
pairScoresOf(queries, dates, availableFiles) ==
  LET terms == dateSearchTermsOf(dates)
  IN [q \in 1..Len(queries) |->
        [i \in 1..Len(availableFiles) |-> pairScore(queries[q], terms, availableFiles[i])]]

allCandidatesOf(queries, dates, availableFiles) ==
  scoreQueries(queries, dateSearchTermsOf(dates), availableFiles, 1)

(***************************************************************************)
(* matcher: deduplication, ranking, decision                               *)
(***************************************************************************)
\* a variant: a later entry always replaces the earlier one
replacesAlways(c, existing) == TRUE

\* !existing || c.score > existing.score, for an existing entry
replacesExisting(c, existing) == NumLess(existing.score, c.score)

RECURSIVE deduplicate(_, _)
\* allCandidates.forEach(c => ...uniqueCandidates.set(c.file.path, c)): a Map keeps a
\* key at the position of its first insertion
deduplicate(cands, unique) ==
  IF cands = <<>> THEN unique
  ELSE LET c == Head(cands)
           at == {i \in 1..Len(unique) : unique[i].file.path = c.file.path}
       IN IF at = {} THEN deduplicate(Tail(cands), Append(unique, c))
          ELSE LET i == CHOOSE i \in at : TRUE
               IN IF replacesExisting(c, unique[i])
                  THEN deduplicate(Tail(cands), [unique EXCEPT ![i] = c])
                  ELSE deduplicate(Tail(cands), unique)

\* a variant: an unstable sort that puts c before the entries of equal score
insertBeforeTies(sorted, c) ==
  LET pos == Cardinality({i \in 1..Len(sorted) : NumLess(c.score, sorted[i].score)})
  IN SubSeq(sorted, 1, pos) \o <<c>> \o SubSeq(sorted, pos + 1, Len(sorted))

\* where the stable sort by (b.score - a.score) puts c among the entries before it
insertByScore(sorted, c) ==
  LET pos == Cardinality({i \in 1..Len(sorted) : NumAtLeast(sorted[i].score, c.score)})
  IN SubSeq(sorted, 1, pos) \o <<c>> \o SubSeq(sorted, pos + 1, Len(sorted))

RECURSIVE sortByScore(_, _)
\* Array.prototype.sort((a, b) => b.score - a.score), which is stable
sortByScore(cands, sorted) ==
  IF cands = <<>> THEN sorted
  ELSE sortByScore(Tail(cands), insertByScore(sorted, Head(cands)))

sortedCandidatesOf(queries, dates, availableFiles) ==
  sortByScore(deduplicate(allCandidatesOf(queries, dates, availableFiles), <<>>), <<>>)

MAX_CANDIDATES == 5

\* a variant that lists every candidate
topCandidatesAll(sortedCandidates) ==
  [i \in 1..Len(sortedCandidates) |-> sortedCandidates[i].file]

\* sortedCandidates.slice(0, 5).map(c => c.file)
topCandidates(sortedCandidates) ==
  LET n == IF Len(sortedCandidates) < MAX_CANDIDATES THEN Len(sortedCandidates)
           ELSE MAX_CANDIDATES
  IN [i \in 1..n |-> sortedCandidates[i].file]

\* a variant: a lead of exactly 0.1 wins
isWinnerAtMargin(sortedCandidates) ==
  \/ NumLess(HIGH_SCORE, sortedCandidates[1].score)
  \/ Len(sortedCandidates) < 2
  \/ NumAtLeast(sortedCandidates[1].score, NumAdd(sortedCandidates[2].score, WIN_MARGIN))

\* best.score > 1.2 || !runnerUp || (best.score > runnerUp.score + 0.1)
isWinner(sortedCandidates) ==
  \/ NumLess(HIGH_SCORE, sortedCandidates[1].score)
  \/ Len(sortedCandidates) < 2
  \/ NumLess(NumAdd(sortedCandidates[2].score, WIN_MARGIN), sortedCandidates[1].score)

decide(sortedCandidates) ==
  IF Len(sortedCandidates) = 0
  THEN [status |-> "NOT_FOUND", file |-> Absent, candidates |-> Absent]
  ELSE IF isWinner(sortedCandidates)
  THEN [status |-> "FOUND", file |-> Some(sortedCandidates[1].file), candidates |-> Absent]
  ELSE [status |-> "AMBIGUOUS", file |-> Absent,
        candidates |-> Some(topCandidates(sortedCandidates))]

findBestMatch(queries, dates, availableFiles) ==
  IF Len(queries) = 0
  THEN [status |-> "NO_QUERY", file |-> Absent, candidates |-> Absent]
  ELSE decide(sortedCandidatesOf(queries, dates, availableFiles))

(***************************************************************************)
(* Inputs: cell texts, file names and folder listings the model draws from *)
(***************************************************************************)
\* Email 'Relat<U+00F3>rio Final' de 20/04/2010
TextReport ==
  <<"E","m","a","i","l"," ","\"","R","e","l","a","t","U+00F3","r","i","o"," ","F","i","n",
    "a","l","\""," ","d","e"," ","2","0","/","0","4","/","2","0","1","0">>

\* 'Relatorio Final' e 'v1 Final' 2010-04-20
TextTwoQueries ==
  <<"\"","R","e","l","a","t","o","r","i","o"," ","F","i","n","a","l","\""," ","e"," ","\"",
    "v","1"," ","F","i","n","a","l","\""," ","2","0","1","0","-","0","4","-","2","0">>

\* 'v2 Final' e 'v1 Final'
TextVersions ==
  <<"\"","v","2"," ","F","i","n","a","l","\""," ","e"," ","\"","v","1"," ","F","i","n","a",
    "l","\"">>

\* 'v1 Final' e 'Relatorio Final'
TextTwoQueriesSwapped ==
  <<"\"","v","1"," ","F","i","n","a","l","\""," ","e"," ","\"","R","e","l","a","t","o","r",
    "i","o"," ","F","i","n","a","l","\"">>

\* <U+201C>Ata<U+201D> 1.2.2020
TextSmartQuotes ==
  <<"U+201C","A","t","a","U+201D"," ","1",".","2",".","2","0","2","0">>

\* 'de'
TextStopWord ==
  <<"\"","d","e","\"">>

\* Ver anexo de 20/04/2010
TextDateOnly ==
  <<"V","e","r"," ","a","n","e","x","o"," ","d","e"," ","2","0","/","0","4","/","2","0","1",
    "0">>

\* ' '
TextBlankQuote ==
  <<"\""," ","\"">>

\* 'final.pdf'
TextExtension ==
  <<"\"","f","i","n","a","l",".","p","d","f","\"">>

\* Sem anexo
TextPlain ==
  <<"S","e","m"," ","a","n","e","x","o">>

\* De 1.2.2020 a 2010-04-20
TextTwoDates ==
  <<"D","e"," ","1",".","2",".","2","0","2","0"," ","a"," ","2","0","1","0","-","0","4","-",
    "2","0">>

\* 'Ata de 20/04/2010, the quote never closed
TextUnclosed ==
  <<"\"","A","t","a"," ","d","e"," ","2","0","/","0","4","/","2","0","1","0">>

\* RE_Relatorio_Final_20042010.pdf
NameDated ==
  <<"R","E","_","R","e","l","a","t","o","r","i","o","_","F","i","n","a","l","_","2","0","0",
    "4","2","0","1","0",".","p","d","f">>

\* Relatorio_Final_v1.pdf
NameV1 ==
  <<"R","e","l","a","t","o","r","i","o","_","F","i","n","a","l","_","v","1",".","p","d",
    "f">>

\* Relatorio_Final_v2.pdf
NameV2 ==
  <<"R","e","l","a","t","o","r","i","o","_","F","i","n","a","l","_","v","2",".","p","d",
    "f">>

\* Relatorio_2010-04-20.doc
NameIsoDate ==
  <<"R","e","l","a","t","o","r","i","o","_","2","0","1","0","-","0","4","-","2","0",".","d",
    "o","c">>

\* Final_Relatorio.pdf
NameFinal ==
  <<"F","i","n","a","l","_","R","e","l","a","t","o","r","i","o",".","p","d","f">>

\* relatorio final.PDF
NameSpaced ==
  <<"r","e","l","a","t","o","r","i","o"," ","f","i","n","a","l",".","P","D","F">>

\* Relatorio_20-04-2010.txt
NameDayFirst ==
  <<"R","e","l","a","t","o","r","i","o","_","2","0","-","0","4","-","2","0","1","0",".","t",
    "x","t">>

\* Docs
RootDir ==
  <<"D","o","c","s">>

\* Ponto 1
FolderPonto1 ==
  <<"P","o","n","t","o"," ","1">>

\* Ponto 2
FolderPonto2 ==
  <<"P","o","n","t","o"," ","2">>

\* 'final.doc' de 2010-04-20
TextDocDated ==
  <<"\"","f","i","n","a","l",".","d","o","c","\""," ","d","e"," ","2","0","1","0","-","0",
    "4","-","2","0">>

\* Doc_Final.txt
NameDocFinal ==
  <<"D","o","c","_","F","i","n","a","l",".","t","x","t">>

\* the cell texts a row's column C may hold
CellTexts ==
  { TextReport, TextTwoQueries, TextVersions, TextTwoQueriesSwapped, TextSmartQuotes,
    TextStopWord, TextDateOnly, TextBlankQuote, TextExtension, TextPlain, TextTwoDates,
    TextUnclosed, TextDocDated }

\* the names of the files a folder may hold
FileNames ==
  << NameDated, NameV1, NameV2, NameIsoDate, NameFinal, NameSpaced, NameDayFirst,
     NameDocFinal >>

\* file.webkitRelativePath of the file called name in the folder called folder
RelativePath(folder, name) == RootDir \o <<"/">> \o folder \o <<"/">> \o name

\* a File of a folder selection: the browser gives name as the last path segment
FileEntry(folder, name) ==
  [name |-> name, webkitRelativePath |-> RelativePath(folder, name), lastModified |-> 0]

\* a File object: the one the upload-th folder selection holds for the path
FileOf(upload, path) == [upload |-> upload, path |-> path]

\* the FileNode handleFolderUpload builds for a File of the upload-th selection
FileNodeOf(file, upload) ==
  [name |-> file.name, path |-> file.webkitRelativePath,
   lastModified |-> file.lastModified,
   fileObject |-> Some(FileOf(upload, file.webkitRelativePath))]

(***************************************************************************)
(* types.ts: ROW_MAPPINGS; matcher: getTargetFolderForRow                  *)
(***************************************************************************)
Ponto(n) == <<"P","o","n","t","o"," ">> \o n

ROW_MAPPINGS ==
  << [start |-> 4,    end |-> 10,   folder |-> Ponto(<<"1">>)],
     [start |-> 13,   end |-> 41,   folder |-> Ponto(<<"2">>)],
     [start |-> 45,   end |-> 286,  folder |-> Ponto(<<"3">>)],
     [start |-> 289,  end |-> 312,  folder |-> Ponto(<<"4">>)],
     [start |-> 316,  end |-> 532,  folder |-> Ponto(<<"5">>)],
     [start |-> 882,  end |-> 921,  folder |-> Ponto(<<"6">>)],
     [start |-> 924,  end |-> 1478, folder |-> Ponto(<<"7">>)],
     [start |-> 1481, end |-> 1782, folder |-> Ponto(<<"8">>)],
     [start |-> 1784, end |-> 2194, folder |-> Ponto(<<"9">>)],
     [start |-> 2199, end |-> 2443, folder |-> Ponto(<<"1","2">>)],
     [start |-> 2446, end |-> 2500, folder |-> Ponto(<<"1","3">>)] >>

\* ROW_MAPPINGS.find(m => rowIndex >= m.start && rowIndex <= m.end)?.folder ?? null
getTargetFolderForRow(rowIndex) ==
  LET hits == {k \in 1..Len(ROW_MAPPINGS) :
                 rowIndex >= ROW_MAPPINGS[k].start /\ rowIndex <= ROW_MAPPINGS[k].end}
  IN IF hits = {} THEN Absent
     ELSE Some(ROW_MAPPINGS[CHOOSE k \in hits : \A j \in hits : k <= j].folder)

(***************************************************************************)
(* A JavaScript Map: the entries in the order of their keys' first         *)
(* insertion                                                               *)
(***************************************************************************)
MapGet(map, key) ==
  LET hits == {k \in 1..Len(map) : map[k].key = key}
  IN IF hits = {} THEN Absent ELSE Some(map[CHOOSE k \in hits : TRUE].value)

MapSet(map, key, value) ==
  IF \E k \in 1..Len(map) : map[k].key = key
  THEN [k \in 1..Len(map) |->
          IF map[k].key = key THEN [key |-> key, value |-> value] ELSE map[k]]
  ELSE Append(map, [key |-> key, value |-> value])

\* String.prototype.startsWith
startsWith(s, prefix) == Len(s) >= Len(prefix) /\ SubSeq(s, 1, Len(prefix)) = prefix

(***************************************************************************)
(* App: handleFolderUpload                                                 *)
(***************************************************************************)
\* pathParts.find(p => p.toLowerCase().startsWith('ponto '))
pontoFolderOf(webkitRelativePath) ==
  LET pathParts == splitOn(webkitRelativePath, {"/"}, <<>>)
      hits == {k \in 1..Len(pathParts) :
                 startsWith(toLowerCase(pathParts[k]), <<"p","o","n","t","o"," ">>)}
  IN IF hits = {} THEN Absent
     ELSE Some(pathParts[CHOOSE k \in hits : \A j \in hits : k <= j])

RECURSIVE buildFileMap(_, _, _)
\* the forEach of handleFolderUpload, as to map: the files of the selection that lie
\* under a folder 'ponto ...', grouped by that folder's name as written
buildFileMap(files, upload, map) ==
  IF files = <<>> THEN map
  ELSE LET file == Head(files)
           pontoFolder == pontoFolderOf(file.webkitRelativePath)
       IN IF IsSome(pontoFolder)
          THEN LET got == MapGet(map, Get(pontoFolder))
                   existing == IF IsSome(got) THEN Get(got) ELSE <<>>
               IN buildFileMap(Tail(files), upload,
                    MapSet(map, Get(pontoFolder), Append(existing, FileNodeOf(file, upload))))
          ELSE buildFileMap(Tail(files), upload, map)

\* the forEach of handleFolderUpload, as to count
countFiles(files) ==
  Cardinality({k \in 1..Len(files) : IsSome(pontoFolderOf(files[k].webkitRelativePath))})

RECURSIVE buildAllFilesMap(_, _, _)
\* the forEach of handleFolderUpload, as to allFilesMap: every file of the selection
\* by its relative path
buildAllFilesMap(files, upload, map) ==
  IF files = <<>> THEN map
  ELSE buildAllFilesMap(Tail(files), upload,
         MapSet(map, Head(files).webkitRelativePath,
           FileOf(upload, Head(files).webkitRelativePath)))

\* useMemo allFiles: the nodes of every folder of fileMap
allFilesOf(map) == Flatten([k \in 1..Len(map) |-> map[k].value])

(***************************************************************************)
(* App: reconcileFiles                                                     *)
(***************************************************************************)
\* a variant that takes the source's File whether the node has one or not
reattachAlways(node, fileSource) ==
  LET f == MapGet(fileSource, node.path)
  IN IF IsSome(f) THEN [node EXCEPT !.fileObject = f] ELSE node

\* a variant that drops the File of a node that has one
reattachToggle(node, fileSource) ==
  IF ~IsSome(node.fileObject)
  THEN LET f == MapGet(fileSource, node.path)
       IN IF IsSome(f) THEN [node EXCEPT !.fileObject = f] ELSE node
  ELSE [node EXCEPT !.fileObject = Absent]

\* a variant that takes the first File of the source, whatever its path
reattachFirst(node, fileSource) ==
  IF ~IsSome(node.fileObject) /\ Len(fileSource) > 0
  THEN [node EXCEPT !.fileObject = Some(fileSource[1].value)]
  ELSE node

\* if (!node.fileObject) { const f = fileSource.get(node.path); if (f) node.fileObject = f }
reattach(node, fileSource) ==
  IF ~IsSome(node.fileObject)
  THEN LET f == MapGet(fileSource, node.path)
       IN IF IsSome(f) THEN [node EXCEPT !.fileObject = f] ELSE node
  ELSE node

reattachEach(nodes, fileSource) == [k \in 1..Len(nodes) |-> reattach(nodes[k], fileSource)]

\* The code writes the File into the node objects themselves. manualResolution is
\* not visited, but where it is the object that stands first in manualResolutions
\* it reads what was written there.
sharedResolutionRead(res) ==
  IF res.sharedResolution
  THEN [res EXCEPT !.manualResolution = Some(Get(res.manualResolutions)[1])]
  ELSE res

\* a variant that keeps only the candidates the source has a File for
reconcileRecordDropping(res, fileSource) ==
  sharedResolutionRead(
    [res EXCEPT
       !.matchedFile = IF IsSome(@) THEN Some(reattach(Get(@), fileSource)) ELSE @,
       !.manualResolutions = IF IsSome(@) THEN Some(reattachEach(Get(@), fileSource)) ELSE @,
       !.candidates =
          IF IsSome(@)
          THEN Some(SelectSeq(reattachEach(Get(@), fileSource),
                              LAMBDA c : IsSome(c.fileObject)))
          ELSE @])

\* the callback of currentResults.map: matchedFile, manualResolutions, candidates.
\* The code writes the nodes in place and returns the record itself. A node object
\* that two lists share has one path and one fileObject, so the lists read the
\* same as these values.
reconcileRecord(res, fileSource) ==
  sharedResolutionRead(
    [res EXCEPT
       !.matchedFile = IF IsSome(@) THEN Some(reattach(Get(@), fileSource)) ELSE @,
       !.manualResolutions = IF IsSome(@) THEN Some(reattachEach(Get(@), fileSource)) ELSE @,
       !.candidates = IF IsSome(@) THEN Some(reattachEach(Get(@), fileSource)) ELSE @])

\* updatedResults of reconcileFiles, the argument of setResults
reconcileFiles(currentResults, fileSource) ==
  [k \in 1..Len(currentResults) |-> reconcileRecord(currentResults[k], fileSource)]

\* if (updatedResults.length > 0) setStep(AppStep.RESULTS)
stepAfterReconcile(updatedResults, current) ==
  IF Len(updatedResults) > 0 THEN "RESULTS" ELSE current

(***************************************************************************)
(* App: processExcel                                                       *)
(***************************************************************************)
\* an AnalysisResult; an optional field that is missing or undefined is Absent.
\* manualResolution is the single file of projects saved by older versions.
\* sharedResolution is no property of the object: it tells that manualResolution
\* is the very FileNode object that stands first in manualResolutions, as the
\* migration of handleLoadProject leaves it, so that a write to the one is a write
\* to the other.
AnalysisResult(rowId, originalContent, targetFolder, queries, dates, status, file, cands) ==
  [rowId |-> rowId, originalContent |-> originalContent, targetFolder |-> targetFolder,
   extractedQueries |-> queries, extractedDates |-> dates, matchStatus |-> status,
   matchedFile |-> file, candidates |-> cands, manualResolutions |-> Absent,
   manualResolution |-> Absent, isIgnored |-> Absent, sharedResolution |-> FALSE]

\* data[i][2]: a cell is Some(text) when typeof gives 'string', else Absent
columnC(row) == IF Len(row) >= 3 THEN row[3] ELSE Absent

\* the body of the row loop for the row rowNum: the records it pushes
analyseRow(row, rowNum, map) ==
  LET targetFolder == getTargetFolderForRow(rowNum)
      contentC == columnC(row)
  IN IF IsSome(targetFolder) /\ IsSome(contentC)
     THEN LET meta == extractMetadata(Get(contentC))
          IN IF Len(meta.queries) > 0
             THEN LET got == MapGet(map, Get(targetFolder))
                      filesInFolder == IF IsSome(got) THEN Get(got) ELSE <<>>
                      matchResult == findBestMatch(meta.queries, meta.dates, filesInFolder)
                  IN << AnalysisResult(rowNum, Get(contentC), Get(targetFolder), meta.queries,
                          meta.dates, matchResult.status, matchResult.file,
                          matchResult.candidates) >>
             ELSE << AnalysisResult(rowNum, Get(contentC), Get(targetFolder), <<>>,
                       meta.dates, "NO_QUERY", Absent, Absent) >>
     ELSE <<>>

RECURSIVE analyseRows(_, _, _)
\* for (let i = 0; i < data.length; i++), from the row rowNum = i + 1 on
analyseRows(data, map, rowNum) ==
  IF rowNum > Len(data) THEN <<>>
  ELSE analyseRow(data[rowNum], rowNum, map) \o analyseRows(data, map, rowNum + 1)

\* a variant that resolves with no rows for a file XLSX cannot read
readExcelFileLenient(file) == IF file.readable THEN Some(file.sheet) ELSE Some(<<>>)

\* readExcelFile: the rows of the first sheet, or Absent when the promise rejects
readExcelFile(file) == IF file.readable THEN Some(file.sheet) ELSE Absent

(***************************************************************************)
(* App: handleSaveProject and handleLoadProject                            *)
(***************************************************************************)
\* the replacer of JSON.stringify: the key fileObject is left out
withoutFileObject(node) == [node EXCEPT !.fileObject = Absent]

\* a variant that writes the first of the manual files only
stringifyResultFirstFile(r) ==
  [r EXCEPT
     !.matchedFile = IF IsSome(@) THEN Some(withoutFileObject(Get(@))) ELSE @,
     !.candidates =
        IF IsSome(@) THEN Some([k \in 1..Len(Get(@)) |-> withoutFileObject(Get(@)[k])]) ELSE @,
     !.manualResolutions =
        IF IsSome(@) /\ Len(Get(@)) > 0 THEN Some(<<withoutFileObject(Get(@)[1])>>) ELSE @,
     !.manualResolution = IF IsSome(@) THEN Some(withoutFileObject(Get(@))) ELSE @,
     !.sharedResolution = FALSE]

\* a record as the text of JSON.stringify holds it and JSON.parse reads it back:
\* nodes without the key fileObject, and an object of its own under every key
stringifyResult(r) ==
  [r EXCEPT
     !.matchedFile = IF IsSome(@) THEN Some(withoutFileObject(Get(@))) ELSE @,
     !.candidates =
        IF IsSome(@) THEN Some([k \in 1..Len(Get(@)) |-> withoutFileObject(Get(@)[k])]) ELSE @,
     !.manualResolutions =
        IF IsSome(@) THEN Some([k \in 1..Len(Get(@)) |-> withoutFileObject(Get(@)[k])]) ELSE @,
     !.manualResolution = IF IsSome(@) THEN Some(withoutFileObject(Get(@))) ELSE @,
     !.sharedResolution = FALSE]

\* a value of the key rawExcelData that is truthy and no array
NotRows == << << <<"not", "array">> >> >>

\* The project file handleSaveProject downloads: the text JSON.stringify gives, told
\* by the value JSON.parse reads back from it (the timestamp, which nothing reads, is
\* left out). parses: JSON.parse returns. isNull: it returns null. results: the
\* array of that key, Absent when the key is missing or no array. rawExcelData:
\* the value of that key when it is truthy, rows or NotRows, else Absent.
projectFileOf(data, res) ==
  [parses |-> TRUE,
   isNull |-> FALSE,
   rawExcelData |-> Some(data),
   results |-> Some([k \in 1..Len(res) |-> stringifyResult(res[k])])]

\* a variant that migrates the single file and leaves the status as saved
migrateKeepStatus(r) ==
  IF /\ IsSome(r.manualResolution)
     /\ (~IsSome(r.manualResolutions) \/ Len(Get(r.manualResolutions)) = 0)
  THEN [r EXCEPT !.manualResolutions = Some(<<Get(r.manualResolution)>>),
                 !.sharedResolution = TRUE]
  ELSE r

\* the callback of json.results.map in handleLoadProject
migrateResult(r) ==
  LET legacy == IF /\ IsSome(r.manualResolution)
                   /\ (~IsSome(r.manualResolutions) \/ Len(Get(r.manualResolutions)) = 0)
                THEN [r EXCEPT !.manualResolutions = Some(<<Get(r.manualResolution)>>),
                               !.sharedResolution = TRUE]
                ELSE r
  IN IF IsSome(legacy.manualResolutions) /\ Len(Get(legacy.manualResolutions)) > 0
     THEN [legacy EXCEPT !.matchStatus = "FOUND"]
     ELSE legacy

\* json.results throws a TypeError: the text is null
throwsOnResults(projectFile) == projectFile.parses /\ projectFile.isNull

\* json.results && Array.isArray(json.results) is true
hasResults(projectFile) ==
  projectFile.parses /\ ~projectFile.isNull /\ IsSome(projectFile.results)

migratedResultsOf(projectFile) ==
  [k \in 1..Len(Get(projectFile.results)) |-> migrateResult(Get(projectFile.results)[k])]

\* an element of json.results that is null: r.manualResolution throws a TypeError
NullRecord == [isNull |-> TRUE]

\* What reader.onload does with the text of the file. "error": JSON.parse, the
\* reading of json.results or the callback of map throws, and the catch shows an
\* alert. "skipped": the condition of the if is false, and nothing is done or said.
\* "loaded": the records are set.
loadOutcome(projectFile) ==
  IF ~projectFile.parses THEN "error"
  ELSE IF throwsOnResults(projectFile) THEN "error"
  ELSE IF ~hasResults(projectFile) THEN "skipped"
  ELSE IF \E k \in 1..Len(Get(projectFile.results)) :
            Get(projectFile.results)[k] = NullRecord
  THEN "error"
  ELSE "loaded"

(***************************************************************************)
(* Inputs of the application: spreadsheets, folders, project files         *)
(***************************************************************************)
\* Documento
TextHeader ==
  <<"D","o","c","u","m","e","n","t","o">>

\* notas.txt
NameNotes ==
  <<"n","o","t","a","s",".","t","x","t">>

\* ponto 2
FolderLowerCase ==
  <<"p","o","n","t","o"," ","2">>

\* a row of the sheet with the cell c in column C
RowWith(c) == <<Absent, Absent, c>>

\* A sheet: a title in row 1, the cells of cells4 in the rows from 4 on (at most 7,
\* Ponto 1), a text in row 11 (between two ranges), the cells of cells13 in the rows
\* from 13 on (Ponto 2); the other rows are empty.
SheetOf(cells4, cells13) ==
  [i \in 1..(12 + Len(cells13)) |->
     CASE i = 1 -> RowWith(Some(TextHeader))
       [] i \in 4..(3 + Len(cells4)) -> RowWith(cells4[i - 3])
       [] i = 11 -> RowWith(Some(TextReport))
       [] i \in 13..(12 + Len(cells13)) -> RowWith(cells13[i - 12])
       [] OTHER -> <<>>]

WorkbookLong ==
  [readable |-> TRUE,
   sheet |-> SheetOf(
     << Some(TextReport), Some(TextDateOnly), Some(TextTwoQueries), Some(TextPlain),
        Some(TextVersions), Some(TextTwoDates), Some(TextStopWord) >>,
     << Some(TextVersions), Some(TextUnclosed), Some(TextBlankQuote), Some(TextSmartQuotes),
        Some(TextExtension) >>)]

WorkbookShort ==
  [readable |-> TRUE,
   sheet |-> SheetOf(
     << Some(TextUnclosed), Absent, Some(TextTwoQueriesSwapped) >>,
     << Some(TextDateOnly), Some(TextReport) >>)]

\* a file XLSX cannot read
WorkbookUnreadable == [readable |-> FALSE, sheet |-> <<>>]

\* the files the user may pick as the spreadsheet
ExcelFiles == {WorkbookLong, WorkbookShort, WorkbookUnreadable}

\* a file directly under the root folder
LooseFile ==
  [name |-> NameNotes, webkitRelativePath |-> RootDir \o <<"/">> \o NameNotes,
   lastModified |-> 0]

SelectionFull ==
  << FileEntry(FolderPonto1, NameDated), FileEntry(FolderPonto1, NameV1),
     FileEntry(FolderPonto1, NameV2), LooseFile,
     FileEntry(FolderPonto2, NameV1), FileEntry(FolderPonto2, NameV2) >>

SelectionPartial ==
  << FileEntry(FolderPonto1, NameV2), FileEntry(FolderPonto1, NameFinal),
     FileEntry(FolderLowerCase, NameV1) >>

SelectionLoose == << LooseFile >>

\* the two versions of the report under Ponto 2, and nothing under Ponto 1
SelectionPonto2 ==
  << FileEntry(FolderPonto2, NameV1), FileEntry(FolderPonto2, NameV2) >>

\* the folders the user may pick
FolderSelections == {SelectionFull, SelectionPartial, SelectionLoose}

\* a FileNode as JSON.parse gives it: no fileObject
SavedNode(folder, name) ==
  [name |-> name, path |-> RelativePath(folder, name), lastModified |-> 0,
   fileObject |-> Absent]

\* project files not saved in this session
ProjectGarbage ==
  [parses |-> FALSE, isNull |-> FALSE, rawExcelData |-> Absent, results |-> Absent]

\* the text null
ProjectNull ==
  [parses |-> TRUE, isNull |-> TRUE, rawExcelData |-> Absent, results |-> Absent]

ProjectNoResults ==
  [parses |-> TRUE, isNull |-> FALSE, rawExcelData |-> Some(<<>>), results |-> Absent]

ProjectEmpty ==
  [parses |-> TRUE, isNull |-> FALSE, rawExcelData |-> Absent, results |-> Some(<<>>)]

\* A project of an older version. Row 4: resolved by hand to a single file, no list.
\* Row 5: ambiguous. Row 6: a single file and an empty list. Row 7: a single file
\* and a list of another file, saved as NOT_FOUND. Its rawExcelData is no array.
ProjectLegacy ==
  [parses |-> TRUE,
   isNull |-> FALSE,
   rawExcelData |-> Some(NotRows),
   results |-> Some(
     << [AnalysisResult(4, TextVersions, FolderPonto1, <<>>, <<>>, "NOT_FOUND", Absent, Absent)
           EXCEPT !.manualResolution = Some(SavedNode(FolderPonto1, NameV1))],
        AnalysisResult(5, TextVersions, FolderPonto1, <<>>, <<>>, "AMBIGUOUS", Absent,
          Some(<<SavedNode(FolderPonto1, NameV2), SavedNode(FolderPonto1, NameV1)>>)),
        [AnalysisResult(6, TextVersions, FolderPonto1, <<>>, <<>>, "AMBIGUOUS", Absent,
           Some(<<SavedNode(FolderPonto1, NameV2), SavedNode(FolderPonto1, NameV1)>>))
           EXCEPT !.manualResolution = Some(SavedNode(FolderPonto1, NameV2)),
                  !.manualResolutions = Some(<<>>)],
        [AnalysisResult(7, TextPlain, FolderPonto1, <<>>, <<>>, "NOT_FOUND", Absent, Absent)
           EXCEPT !.manualResolution = Some(SavedNode(FolderPonto1, NameV1)),
                  !.manualResolutions = Some(<<SavedNode(FolderPonto1, NameFinal)>>)] >>)]

\* a project whose list of results holds null
ProjectNullRecord ==
  [parses |-> TRUE, isNull |-> FALSE, rawExcelData |-> Some(<<>>),
   results |-> Some(<<NullRecord>>)]

ExternalProjects ==
  {ProjectGarbage, ProjectNull, ProjectNoResults, ProjectEmpty, ProjectNullRecord,
   ProjectLegacy}

(***************************************************************************)
(* State                                                                   *)
(***************************************************************************)
VARIABLES
  mPhase,     \* matcher run: "input", "extracted" or "classified"
  mText,      \* matcher run: the cell text
  mPool,      \* matcher run: availableFiles
  mMeta,      \* matcher run: the result of extractMetadata
  mResult,    \* matcher run: the result of findBestMatch
  mScores,    \* matcher run: the score the loops computed for each (query, file)
  mKept,      \* matcher run: the entries of uniqueCandidates, in the Map's order
  step,             \* App state: "UPLOAD", "PROCESSING" or "RESULTS"
  excelFile,        \* App state: the spreadsheet picked, or Absent
  rawExcelData,     \* App state: the rows read from the spreadsheet
  fileMap,          \* App state: Map from folder name to FileNode[]
  folderFileCount,  \* App state
  results,          \* App state: AnalysisResult[]
  isProcessing,     \* App state
  projectLoaded,    \* App state
  pendingLoad,      \* the project files the FileReaders of handleLoadProject are reading
  pendingRead,      \* processExcel waiting at await readExcelFile: its excelFile, fileMap
  saved,            \* the project file last downloaded by handleSaveProject
  savedValidated,   \* the rowIds confirmMatch had been applied to when saved was written
  uploads,          \* the number of folder selections made so far
  op,               \* the handler that ran last
  rBefore,          \* currentResults of the last call of reconcileFiles
  rSource,          \* fileSource of the last call of reconcileFiles
  pendingAI,        \* handleResolveAI waiting at await resolveAmbiguityWithAI: its result
  edits,            \* the number of clicks made in the results table so far
  validated,        \* the rowIds of the records of results confirmMatch was applied to,
                    \* in this page or, for the records of the project saved, before the save
  oracle,           \* what the last call of the oracle that was answered met: key, reply
  exported          \* the rows of the last workbook handleExport wrote, or Absent

mvars == <<mPhase, mText, mPool, mMeta, mResult, mScores, mKept>>

appvars ==
  <<step, excelFile, rawExcelData, fileMap, folderFileCount, results, isProcessing,
    projectLoaded, pendingLoad, pendingRead, saved, savedValidated, uploads, op, rBefore,
    rSource, pendingAI, edits, validated, oracle, exported>>

tablevars == <<pendingAI, edits, validated, oracle>>

vars == <<mvars, appvars>>

(***************************************************************************)
(* The matcher as a function: a cell text and a pool are drawn, then       *)
(* extractMetadata and findBestMatch are applied.                          *)
(***************************************************************************)
MaxPool == 6

RECURSIVE Ascending(_)
\* the members of a set of numbers in increasing order
Ascending(S) ==
  IF S = {} THEN <<>>
  ELSE LET m == CHOOSE x \in S : \A y \in S : x <= y
       IN <<m>> \o Ascending(S \ {m})

Reverse(s) == [i \in 1..Len(s) |-> s[Len(s) + 1 - i]]

\* the pools: at most MaxPool files of Ponto 1, in listing order or reversed
Pools ==
  LET picks == {S \in SUBSET (1..Len(FileNames)) : Cardinality(S) <= MaxPool}
      poolOf(ix) == [i \in 1..Len(ix) |-> FileNodeOf(FileEntry(FolderPonto1, FileNames[ix[i]]), 1)]
  IN {poolOf(Ascending(S)) : S \in picks} \cup {poolOf(Reverse(Ascending(S))) : S \in picks}

NoMeta == [queries |-> <<>>, dates |-> <<>>]

\* the App as mounted: the initial values of its useState hooks
AppMounted ==
  /\ step = "UPLOAD"
  /\ excelFile = Absent
  /\ rawExcelData = <<>>
  /\ fileMap = <<>>
  /\ folderFileCount = 0
  /\ results = <<>>
  /\ isProcessing = FALSE
  /\ projectLoaded = FALSE
  /\ pendingLoad = EmptyBag
  /\ pendingRead = Absent
  /\ saved = Absent
  /\ savedValidated = {}
  /\ uploads = 0
  /\ op = "mount"
  /\ rBefore = <<>>
  /\ rSource = <<>>
  /\ pendingAI = Absent
  /\ edits = 0
  /\ validated = {}
  /\ oracle = Absent
  /\ exported = Absent

\* no matcher run
MatcherIdle ==
  /\ mPhase = "idle"
  /\ mText = <<>>
  /\ mPool = <<>>
  /\ mMeta = [queries |-> <<>>, dates |-> <<>>]
  /\ mResult = [status |-> "NONE", file |-> Absent, candidates |-> Absent]
  /\ mScores = <<>>
  /\ mKept = <<>>

NoResult == [status |-> "NONE", file |-> Absent, candidates |-> Absent]

InitMatch ==
  /\ mPhase = "input"
  /\ mText \in CellTexts
  /\ mPool \in Pools
  /\ mMeta = NoMeta
  /\ mResult = NoResult
  /\ mScores = <<>>
  /\ mKept = <<>>
  /\ AppMounted

MatchExtract ==
  /\ mPhase = "input"
  /\ mMeta' = extractMetadata(mText)
  /\ mPhase' = "extracted"
  /\ UNCHANGED <<mText, mPool, mResult, mScores, mKept, appvars>>

MatchClassify ==
  /\ mPhase = "extracted"
  /\ mResult' = findBestMatch(mMeta.queries, mMeta.dates, mPool)
  /\ mScores' = pairScoresOf(mMeta.queries, mMeta.dates, mPool)
  /\ mKept' = deduplicate(allCandidatesOf(mMeta.queries, mMeta.dates, mPool), <<>>)
  /\ mPhase' = "classified"
  /\ UNCHANGED <<mText, mPool, mMeta, appvars>>

NextMatch == MatchExtract \/ MatchClassify

SpecMatch == InitMatch /\ [][NextMatch]_vars

(***************************************************************************)
(* The application: the handlers of App, each enabled where the page shows  *)
(* its control. FileUploader and the start button are rendered only in     *)
(* step UPLOAD, the header's save button only in step RESULTS.             *)
(***************************************************************************)
MaxUploads == 2

Init == MatcherIdle /\ AppMounted

\* onExcelUpload={setExcelFile}; the card ignores clicks once a project is loaded
onExcelUpload(file) ==
  /\ step = "UPLOAD"
  /\ ~projectLoaded
  /\ excelFile' = Some(file)
  /\ op' = "onExcelUpload"
  /\ UNCHANGED <<rawExcelData, fileMap, folderFileCount, results, isProcessing, step,
                 projectLoaded, pendingLoad, pendingRead, saved, savedValidated, uploads, rBefore, rSource>>
  /\ UNCHANGED tablevars
  /\ UNCHANGED <<exported, mvars>>

handleFolderUpload(files) ==
  /\ step = "UPLOAD"
  /\ uploads < MaxUploads
  /\ LET upload == uploads + 1
         allFilesMap == buildAllFilesMap(files, upload, <<>>)
     IN /\ uploads' = upload
        /\ fileMap' = buildFileMap(files, upload, <<>>)
        /\ folderFileCount' = countFiles(files)
        /\ IF projectLoaded /\ Len(results) > 0
           THEN /\ results' = reconcileFiles(results, allFilesMap)
                /\ step' = stepAfterReconcile(reconcileFiles(results, allFilesMap), step)
                /\ rBefore' = results
                /\ rSource' = allFilesMap
                /\ op' = "reconcileFiles"
           ELSE /\ op' = "handleFolderUpload"
                /\ UNCHANGED <<results, step, rBefore, rSource>>
  /\ UNCHANGED <<excelFile, rawExcelData, isProcessing, projectLoaded, pendingLoad,
                 pendingRead, saved, savedValidated>>
  /\ UNCHANGED tablevars
  /\ UNCHANGED <<exported, mvars>>

\* the FileReaders of handleLoadProject that the model follows at a time
MaxReaders == 2

\* handleLoadProject up to reader.readAsText(file): a FileReader of its own for
\* every call, whatever other readers are still reading
handleLoadProject(file) ==
  /\ step = "UPLOAD"
  /\ BagCardinality(pendingLoad) < MaxReaders
  /\ pendingLoad' = pendingLoad (+) SetToBag({file})
  /\ op' = "handleLoadProject"
  /\ UNCHANGED <<step, excelFile, rawExcelData, fileMap, folderFileCount, results,
                 isProcessing, projectLoaded, pendingRead, saved, savedValidated, uploads, rBefore, rSource>>
  /\ UNCHANGED tablevars
  /\ UNCHANGED <<exported, mvars>>

\* reader.onload of handleLoadProject, for one of the readers that are reading: the
\* readers end in any order
readerOnload ==
  /\ \E json \in BagToSet(pendingLoad) :
       /\ IF loadOutcome(json) = "loaded"
          THEN /\ results' = migratedResultsOf(json)
               /\ rawExcelData' = IF IsSome(json.rawExcelData) THEN Get(json.rawExcelData)
                                  ELSE rawExcelData
               /\ projectLoaded' = TRUE
               /\ step' = "UPLOAD"
               /\ validated' = IF IsSome(saved) /\ json = Get(saved) THEN savedValidated
                               ELSE {}
               /\ op' = "readerOnload"
          ELSE /\ UNCHANGED <<results, rawExcelData, projectLoaded, step, validated>>
               /\ op' = IF loadOutcome(json) = "error" THEN "readerOnloadError"
                        ELSE "readerOnloadSkipped"
       /\ pendingLoad' = pendingLoad (-) SetToBag({json})
  /\ UNCHANGED <<excelFile, fileMap, folderFileCount, isProcessing, pendingRead, saved, savedValidated,
                 uploads, rBefore, rSource, pendingAI, edits, oracle>>
  /\ UNCHANGED <<exported, mvars>>

\* processExcel up to await readExcelFile(excelFile); the button is disabled when
\* (!excelFile && !projectLoaded) || folderFileCount === 0
processExcel ==
  /\ step = "UPLOAD"
  /\ ~((excelFile = Absent /\ ~projectLoaded) \/ folderFileCount = 0)
  /\ IF projectLoaded
     THEN /\ step' = IF folderFileCount /= 0 /\ Len(results) > 0 THEN "RESULTS" ELSE step
          /\ UNCHANGED <<isProcessing, pendingRead>>
     ELSE IF excelFile = Absent \/ Len(fileMap) = 0
     THEN UNCHANGED <<step, isProcessing, pendingRead>>
     ELSE /\ isProcessing' = TRUE
          /\ step' = "PROCESSING"
          /\ pendingRead' = Some([excelFile |-> Get(excelFile), fileMap |-> fileMap])
  /\ op' = "processExcel"
  /\ UNCHANGED <<excelFile, rawExcelData, fileMap, folderFileCount, results, projectLoaded,
                 pendingLoad, saved, savedValidated, uploads, rBefore, rSource>>
  /\ UNCHANGED tablevars
  /\ UNCHANGED <<exported, mvars>>

\* processExcel from the await on: the row loop, or the catch, then the finally
\* analyseRows(data, map, 1), the loop of processExcel over the rows, for the rows
\* of every spreadsheet and the map of every folder selection the application is
\* given, at every upload: evaluated once
AnalysedRows ==
  [read \in {<<file.sheet, buildFileMap(files, upload, <<>>)>> :
               file \in ExcelFiles, files \in FolderSelections,
               upload \in 1..MaxUploads} |->
     analyseRows(read[1], read[2], 1)]

processExcelRead ==
  /\ IsSome(pendingRead)
  /\ LET data == readExcelFile(Get(pendingRead).excelFile)
     IN IF IsSome(data)
        THEN /\ rawExcelData' = Get(data)
             /\ results' = AnalysedRows[<<Get(data), Get(pendingRead).fileMap>>]
             /\ step' = "RESULTS"
             /\ op' = "processExcelDone"
        ELSE /\ step' = "UPLOAD"
             /\ op' = "processExcelFailed"
             /\ UNCHANGED <<rawExcelData, results>>
  /\ isProcessing' = FALSE
  /\ pendingRead' = Absent
  /\ validated' = IF IsSome(readExcelFile(Get(pendingRead).excelFile)) THEN {} ELSE validated
  /\ UNCHANGED <<excelFile, fileMap, folderFileCount, projectLoaded, pendingLoad, saved, savedValidated,
                 uploads, rBefore, rSource, pendingAI, edits, oracle>>
  /\ UNCHANGED <<exported, mvars>>

handleSaveProject ==
  /\ step = "RESULTS"
  /\ saved' = Some(projectFileOf(rawExcelData, results))
  /\ savedValidated' = validated
  /\ op' = "handleSaveProject"
  /\ UNCHANGED <<step, excelFile, rawExcelData, fileMap, folderFileCount, results,
                 isProcessing, projectLoaded, pendingLoad, pendingRead, uploads, rBefore,
                 rSource>>
  /\ UNCHANGED tablevars
  /\ UNCHANGED <<exported, mvars>>

(***************************************************************************)
(* The results table and the oracle                                        *)
(***************************************************************************)
\* ResultsTable shows the records of validResults, under one filter tab or another
Displayed(r) == r.matchStatus /= "NO_QUERY"

\* res.manualResolutions || []
currentSelectionsOf(r) ==
  IF IsSome(r.manualResolutions) THEN Get(r.manualResolutions) ELSE <<>>

\* JavaScript's truthiness of the optional flag isIgnored
isIgnoredOf(r) == IsSome(r.isIgnored) /\ Get(r.isIgnored)

\* .slice(0, 20)
OptionsShown == 20

\* isTargetFolderFile of FileMultiSelect
isTargetFolderFile(file, targetFolder) ==
  Len(targetFolder) > 0 /\ includes(file.path, targetFolder)

\* The sort of filteredOptions puts matches[j] before matches[k] in every browser:
\* a file of the target folder before one outside it, and, of two files of one
\* name on the same side, the one that stands first (localeCompare gives 0 and the
\* sort is stable). The order localeCompare gives to two names that differ is the
\* one of the browser's locale, and is left open.
sortsBefore(matches, j, k, targetFolder) ==
  LET jInTarget == isTargetFolderFile(matches[j], targetFolder)
      kInTarget == isTargetFolderFile(matches[k], targetFolder)
  IN \/ jInTarget /\ ~kInTarget
     \/ jInTarget = kInTarget /\ matches[j].name = matches[k].name /\ j < k

\* filteredOptions of FileMultiSelect, as the set of the options the dropdown can
\* show for a search term: the candidates when the search box is empty, else the
\* files of allFiles whose name holds the term, less those that OptionsShown
\* others stand before in every browser
filteredOptions(searchTerm, candidates, allFiles, targetFolder) ==
  IF Len(searchTerm) = 0 THEN {candidates[k] : k \in 1..Len(candidates)}
  ELSE LET lowerTerm == toLowerCase(searchTerm)
           matches == SelectSeq(allFiles, LAMBDA f : includes(toLowerCase(f.name), lowerTerm))
       IN {matches[k] : k \in {n \in 1..Len(matches) :
             Cardinality({j \in 1..Len(matches) : sortsBefore(matches, j, n, targetFolder)})
               < OptionsShown}}

\* The options the dropdown of a record can show for one search term or another. A
\* file is shown for a term only if it is shown for its own name, which the fewest
\* names hold; and no file is cut when allFiles has OptionsShown files or fewer.
dropdownOptions(r, allFiles) ==
  LET candidates == IF IsSome(r.candidates) THEN Get(r.candidates) ELSE <<>>
  IN filteredOptions(<<>>, candidates, allFiles, r.targetFolder)
       \cup (IF Len(allFiles) <= OptionsShown
             THEN {allFiles[k] : k \in {n \in 1..Len(allFiles) : Len(allFiles[n].name) > 0}}
             ELSE UNION {filteredOptions(allFiles[k].name, candidates, allFiles, r.targetFolder)
                           \cap {allFiles[k]} : k \in 1..Len(allFiles)})

\* a variant that puts the updated record first and drops the one it stands for
handleUpdateResultFirst(prev, updatedResult) ==
  <<updatedResult>> \o SelectSeq(prev, LAMBDA r : r.rowId /= updatedResult.rowId)

\* setResults(prev => prev.map(r => r.rowId === updatedResult.rowId ? updatedResult : r))
handleUpdateResult(prev, updatedResult) ==
  [k \in 1..Len(prev) |->
     IF prev[k].rowId = updatedResult.rowId THEN updatedResult ELSE prev[k]]

\* handleAddFile's new list: the file is appended unless its path is selected
addFile(selections, file) ==
  IF \E k \in 1..Len(selections) : selections[k].path = file.path
  THEN selections
  ELSE Append(selections, file)

\* handleRemoveFile's new list
removeFile(selections, path) ==
  SelectSeq(selections, LAMBDA f : f.path /= path)

\* the new list of handleSelectionUpdate holds the node objects of the old one that
\* are left, in their order: manualResolution is still its first object unless
\* that one was removed
stillShared(result, files) ==
  result.sharedResolution /\ files # <<>> /\ files[1] = Get(result.manualResolution)

\* a variant that takes the status back when no manual file is left
selectionUpdatedDemoting(result, files) ==
  [result EXCEPT !.manualResolutions = Some(files),
                 !.matchStatus = IF files = <<>> THEN "NOT_FOUND" ELSE @,
                 !.sharedResolution = stillShared(result, files)]

\* a variant that makes the record FOUND as soon as it has a manual file
selectionUpdatedPromoting(result, files) ==
  [result EXCEPT !.manualResolutions = Some(files),
                 !.matchStatus = IF files # <<>> THEN "FOUND" ELSE @,
                 !.sharedResolution = stillShared(result, files)]

\* handleSelectionUpdate's record
selectionUpdated(result, files) ==
  [result EXCEPT !.manualResolutions = Some(files),
                 !.sharedResolution = stillShared(result, files)]

\* a variant of confirmMatch that leaves the status as it is
confirmedStatusKept(result) == [result EXCEPT !.isIgnored = Some(FALSE)]

\* confirmMatch's record
confirmed(result) == [result EXCEPT !.matchStatus = "FOUND", !.isIgnored = Some(FALSE)]

\* toggleIgnore's record
ignoreToggled(result) == [result EXCEPT !.isIgnored = Some(~isIgnoredOf(result))]

\* the clicks in the table that the model follows in one session
MaxEdits == 4

\* the clicks that the specifications of the table with its two larger folder
\* selections follow
MaxTableEdits == 2

\* the FileReaders that the specifications of a session at the table follow at a
\* time
MaxTableReaders == 1

\* a click on an option of the dropdown of row k: handleAddFile, handleSelectionUpdate
handleAddFile(k, file) ==
  /\ step = "RESULTS"
  /\ edits < MaxEdits
  /\ Displayed(results[k])
  /\ file \in dropdownOptions(results[k], allFilesOf(fileMap))
  /\ ~ \E j \in 1..Len(currentSelectionsOf(results[k])) :
         currentSelectionsOf(results[k])[j].path = file.path
  /\ results' = handleUpdateResult(results,
                  selectionUpdated(results[k], addFile(currentSelectionsOf(results[k]), file)))
  /\ edits' = edits + 1
  /\ op' = "handleAddFile"
  /\ UNCHANGED <<step, excelFile, rawExcelData, fileMap, folderFileCount, isProcessing,
                 projectLoaded, pendingLoad, pendingRead, saved, savedValidated, uploads, rBefore, rSource,
                 pendingAI, validated, oracle>>
  /\ UNCHANGED <<exported, mvars>>

\* a click on the cross of the j-th selected file of row k: handleRemoveFile,
\* handleSelectionUpdate
handleRemoveFile(k, j) ==
  /\ step = "RESULTS"
  /\ edits < MaxEdits
  /\ Displayed(results[k])
  /\ j \in 1..Len(currentSelectionsOf(results[k]))
  /\ results' = handleUpdateResult(results,
                  selectionUpdated(results[k],
                    removeFile(currentSelectionsOf(results[k]),
                               currentSelectionsOf(results[k])[j].path)))
  /\ edits' = edits + 1
  /\ op' = "handleRemoveFile"
  /\ UNCHANGED <<step, excelFile, rawExcelData, fileMap, folderFileCount, isProcessing,
                 projectLoaded, pendingLoad, pendingRead, saved, savedValidated, uploads, rBefore, rSource,
                 pendingAI, validated, oracle>>
  /\ UNCHANGED <<exported, mvars>>

\* a click on Validar of row k; the button is there when the record has manual
\* files, is not FOUND and is not ignored
confirmMatch(k) ==
  /\ step = "RESULTS"
  /\ edits < MaxEdits
  /\ Displayed(results[k])
  /\ Len(currentSelectionsOf(results[k])) > 0
  /\ results[k].matchStatus /= "FOUND"
  /\ ~isIgnoredOf(results[k])
  /\ results' = handleUpdateResult(results, confirmed(results[k]))
  /\ edits' = edits + 1
  /\ validated' = validated \cup {results[k].rowId}
  /\ op' = "confirmMatch"
  /\ UNCHANGED <<step, excelFile, rawExcelData, fileMap, folderFileCount, isProcessing,
                 projectLoaded, pendingLoad, pendingRead, saved, savedValidated, uploads, rBefore, rSource,
                 pendingAI, oracle>>
  /\ UNCHANGED <<exported, mvars>>

\* a click on Ignorar / Considerar of row k; the button is there when the record is
\* NOT_FOUND or AMBIGUOUS and has no manual files
toggleIgnore(k) ==
  /\ step = "RESULTS"
  /\ edits < MaxEdits
  /\ Displayed(results[k])
  /\ results[k].matchStatus \in {"NOT_FOUND", "AMBIGUOUS"}
  /\ Len(currentSelectionsOf(results[k])) = 0
  /\ results' = handleUpdateResult(results, ignoreToggled(results[k]))
  /\ edits' = edits + 1
  /\ op' = "toggleIgnore"
  /\ UNCHANGED <<step, excelFile, rawExcelData, fileMap, folderFileCount, isProcessing,
                 projectLoaded, pendingLoad, pendingRead, saved, savedValidated, uploads, rBefore, rSource,
                 pendingAI, validated, oracle>>
  /\ UNCHANGED <<exported, mvars>>

(***************************************************************************)
(* geminiService: resolveAmbiguityWithAI; App: handleResolveAI             *)
(***************************************************************************)
\* What ai.models.generateContent does for one call: the promise rejects, or the
\* response holds a text that JSON.parse refuses, or one that parses to an object
\* whose bestMatchFilename is missing (Absent, also for a response with no text)
\* or a string.
ReplyRejects == [kind |-> "rejects", bestMatchFilename |-> Absent]

ReplyUnparsable == [kind |-> "unparsable", bestMatchFilename |-> Absent]

ReplyJson(name) == [kind |-> "json", bestMatchFilename |-> name]

\* resolveAmbiguityWithAI once ai is built: null is Absent. apiKey tells whether
\* process.env.API_KEY is set.
resolveAmbiguityWithAI(apiKey, reply) ==
  IF ~apiKey THEN Absent
  ELSE IF reply.kind /= "json" THEN Absent
  ELSE IF IsSome(reply.bestMatchFilename) /\ Len(Get(reply.bestMatchFilename)) > 0
  THEN reply.bestMatchFilename
  ELSE Absent

\* a variant of find that falls back on the first candidate
findCandidateOrFirst(candidates, bestFileName) ==
  LET hits == {k \in 1..Len(candidates) : candidates[k].name = bestFileName}
  IN IF hits = {} THEN Some(candidates[1])
     ELSE Some(candidates[CHOOSE k \in hits : \A j \in hits : k <= j])

\* result.candidates.find(c => c.name === bestFileName): the first candidate of
\* that name, or Absent
findCandidate(candidates, bestFileName) ==
  LET hits == {k \in 1..Len(candidates) : candidates[k].name = bestFileName}
  IN IF hits = {} THEN Absent
     ELSE Some(candidates[CHOOSE k \in hits : \A j \in hits : k <= j])

\* a variant that takes the first candidate when the oracle gives no name
resolvedOrFirst(result, bestFileName) ==
  LET matched == IF IsSome(bestFileName)
                 THEN findCandidate(Get(result.candidates), Get(bestFileName))
                 ELSE Some(Get(result.candidates)[1])
  IN IF IsSome(matched)
     THEN Some([result EXCEPT !.manualResolutions = Some(<<Get(matched)>>),
                              !.matchStatus = "FOUND", !.sharedResolution = FALSE])
     ELSE Absent

\* a variant that gives up the candidates once one of them is taken
resolvedClearing(result, bestFileName) ==
  LET matched == IF IsSome(bestFileName)
                 THEN findCandidate(Get(result.candidates), Get(bestFileName))
                 ELSE Absent
  IN IF IsSome(matched)
     THEN Some([result EXCEPT !.manualResolutions = Some(<<Get(matched)>>),
                              !.matchStatus = "FOUND", !.candidates = Absent,
                              !.sharedResolution = FALSE])
     ELSE Absent

\* the record handleResolveAI hands to handleUpdateResult for the oracle's answer,
\* or Absent when it shows an alert instead; the list is a new one of a candidate
resolved(result, bestFileName) ==
  LET matched == IF IsSome(bestFileName)
                 THEN findCandidate(Get(result.candidates), Get(bestFileName))
                 ELSE Absent
  IN IF IsSome(matched)
     THEN Some([result EXCEPT !.manualResolutions = Some(<<Get(matched)>>),
                              !.matchStatus = "FOUND", !.sharedResolution = FALSE])
     ELSE Absent

\* the replies the oracle may give for a record: no answer, an empty name, the name
\* of a candidate, a name that no candidate has
OracleReplies(result) ==
  {ReplyRejects, ReplyUnparsable, ReplyJson(Absent), ReplyJson(Some(<<>>)),
   ReplyJson(Some(NameFinal))}
    \cup {ReplyJson(Some(Get(result.candidates)[k].name)) :
            k \in 1..Len(Get(result.candidates))}

\* a click on Sugerir c/ IA of row k, up to await resolveAmbiguityWithAI; the
\* button is there when the record is AMBIGUOUS, has no manual files and is not
\* ignored, and is disabled while isProcessing
handleResolveAI(k) ==
  /\ step = "RESULTS"
  /\ edits < MaxEdits
  /\ Displayed(results[k])
  /\ results[k].matchStatus = "AMBIGUOUS"
  /\ Len(currentSelectionsOf(results[k])) = 0
  /\ ~isIgnoredOf(results[k])
  /\ ~isProcessing
  /\ IF ~IsSome(results[k].candidates) \/ Len(Get(results[k].candidates)) = 0
     THEN UNCHANGED <<isProcessing, pendingAI>>
     ELSE /\ isProcessing' = TRUE
          /\ pendingAI' = Some(results[k])
  /\ edits' = edits + 1
  /\ op' = "handleResolveAI"
  /\ UNCHANGED <<step, excelFile, rawExcelData, fileMap, folderFileCount, results,
                 projectLoaded, pendingLoad, pendingRead, saved, savedValidated, uploads, rBefore, rSource,
                 validated, oracle>>
  /\ UNCHANGED <<exported, mvars>>

\* handleResolveAI from the await on, when the promise of resolveAmbiguityWithAI
\* is fulfilled
handleResolveAIAnswered(apiKey, reply) ==
  /\ IsSome(pendingAI)
  /\ LET result == Get(pendingAI)
         updated == resolved(result, resolveAmbiguityWithAI(apiKey, reply))
     IN IF IsSome(updated)
        THEN /\ results' = handleUpdateResult(results, Get(updated))
             /\ op' = "handleResolveAIAccepted"
        ELSE /\ results' = results
             /\ op' = "handleResolveAIAlert"
  /\ isProcessing' = FALSE
  /\ pendingAI' = Absent
  /\ oracle' = Some([apiKey |-> apiKey, reply |-> reply])
  /\ UNCHANGED <<step, excelFile, rawExcelData, fileMap, folderFileCount, projectLoaded,
                 pendingLoad, pendingRead, saved, savedValidated, uploads, rBefore, rSource, edits,
                 validated>>
  /\ UNCHANGED <<exported, mvars>>

\* handleResolveAI from the await on, when the promise is rejected: new GoogleGenAI
\* and the building of the prompt stand before the try of resolveAmbiguityWithAI,
\* and handleResolveAI has no catch, so the call ends at the await
handleResolveAIRejected ==
  /\ IsSome(pendingAI)
  /\ pendingAI' = Absent
  /\ op' = "handleResolveAIRejected"
  /\ UNCHANGED <<step, excelFile, rawExcelData, fileMap, folderFileCount, results,
                 isProcessing, projectLoaded, pendingLoad, pendingRead, saved, savedValidated, uploads,
                 rBefore, rSource, edits, validated, oracle>>
  /\ UNCHANGED <<exported, mvars>>

(***************************************************************************)
(* excelHelper: generateAndDownloadExcel; App: handleExport                *)
(***************************************************************************)
\* "(Múltiplos) "
MultipleMarker == <<"(","M","U+00FA","l","t","i","p","l","o","s",")"," ">>

\* "AMBÍGUO: "
AmbiguousMarker == <<"A","M","B","U+00CD","G","U","O",":"," ">>

\* "FALHA - Verificar Manualmente"
FailureMarker ==
  <<"F","A","L","H","A"," ","-"," ","V","e","r","i","f","i","c","a","r"," ",
    "M","a","n","u","a","l","m","e","n","t","e">>

RECURSIVE joinNames(_)
\* files.map(f => f.name).join(", ")
joinNames(files) ==
  IF files = <<>> THEN <<>>
  ELSE IF Len(files) = 1 THEN files[1].name
  ELSE files[1].name \o <<",", " ">> \o joinNames(Tail(files))

\* a variant that takes the file of the classifier before the manual ones
finalFilesAutoFirst(res) ==
  IF IsSome(res.matchedFile) THEN res.matchedFile
  ELSE IF IsSome(res.manualResolutions) /\ Len(Get(res.manualResolutions)) > 0
  THEN Get(res.manualResolutions)
  ELSE <<>>

\* finalFiles of generateAndDownloadExcel
finalFiles(res) ==
  IF IsSome(res.manualResolutions) /\ Len(Get(res.manualResolutions)) > 0
  THEN Get(res.manualResolutions)
  ELSE IF IsSome(res.matchedFile) THEN <<Get(res.matchedFile)>>
  ELSE <<>>

\* a cell object with a hyperlink (the Tooltip is left out), and a cell of text
LinkCell(v, target) == [t |-> "s", v |-> v, Target |-> Some(target)]

TextCell(v) == [t |-> "text", v |-> v, Target |-> Absent]

\* what the callback of results.forEach writes to column index 3, or Absent when it
\* writes nothing
exportCell(res) ==
  IF Len(finalFiles(res)) > 0
  THEN Some(LinkCell(
         IF Len(finalFiles(res)) > 1
         THEN MultipleMarker \o joinNames(finalFiles(res))
         ELSE joinNames(finalFiles(res)),
         finalFiles(res)[1].path))
  ELSE IF res.matchStatus = "AMBIGUOUS"
  THEN Some(TextCell(AmbiguousMarker \o
         (IF IsSome(res.candidates) THEN joinNames(Get(res.candidates)) ELSE <<>>)))
  ELSE IF res.matchStatus = "NOT_FOUND" /\ ~isIgnoredOf(res)
  THEN Some(TextCell(FailureMarker))
  ELSE Absent

\* newData[rowIndex][3] = cell, for the row as it is: the array grows to four
\* elements, with holes
setColumn3(row, cell) ==
  [i \in 1..(IF Len(row) > 4 THEN Len(row) ELSE 4) |->
     IF i = 4 THEN Some(cell) ELSE IF i <= Len(row) THEN row[i] ELSE Absent]

\* the callback of results.forEach for one record: the row rowId - 1 of newData
\* (the rowId-th here) is made to exist, and its column 3 is written or not
writeRecord(newData, res) ==
  LET grown == [i \in 1..(IF Len(newData) > res.rowId THEN Len(newData) ELSE res.rowId) |->
                  IF i <= Len(newData) THEN newData[i] ELSE <<>>]
  IN IF IsSome(exportCell(res))
     THEN [grown EXCEPT ![res.rowId] = setColumn3(@, Get(exportCell(res)))]
     ELSE grown

RECURSIVE writeRecords(_, _)
\* results.forEach(...)
writeRecords(newData, res) ==
  IF res = <<>> THEN newData
  ELSE writeRecords(writeRecord(newData, Head(res)), Tail(res))

\* the rows generateAndDownloadExcel hands to aoa_to_sheet
generateAndDownloadExcel(originalData, res) == writeRecords(originalData, res)

\* a click on Exportar Excel, in step RESULTS; originalData.map throws for a value
\* that is no array, and no workbook is written
handleExport ==
  /\ step = "RESULTS"
  /\ IF rawExcelData = NotRows
     THEN /\ exported' = exported
          /\ op' = "handleExportError"
     ELSE /\ exported' = Some(generateAndDownloadExcel(rawExcelData, results))
          /\ op' = "handleExport"
  /\ UNCHANGED <<step, excelFile, rawExcelData, fileMap, folderFileCount, results,
                 isProcessing, projectLoaded, pendingLoad, pendingRead, saved, savedValidated, uploads,
                 rBefore, rSource>>
  /\ UNCHANGED tablevars
  /\ UNCHANGED mvars

\* a step in which one of the readers ended, and the file it was reading
JustRead == \E f \in BagToSet(pendingLoad) : pendingLoad' = pendingLoad (-) SetToBag({f})

onloadFile == CHOOSE f \in BagToSet(pendingLoad) : pendingLoad' = pendingLoad (-) SetToBag({f})

\* the project files the user may pick: the one saved, or one from elsewhere
ProjectFiles == ExternalProjects \cup (IF IsSome(saved) THEN {Get(saved)} ELSE {})

Next ==
  \/ \E file \in ExcelFiles : onExcelUpload(file)
  \/ \E files \in FolderSelections : handleFolderUpload(files)
  \/ \E file \in ProjectFiles : handleLoadProject(file)
  \/ readerOnload
  \/ processExcel
  \/ processExcelRead
  \/ handleSaveProject

Spec == Init /\ [][Next]_vars

(***************************************************************************)
(* Specification of a session at the results table: the App once           *)
(* processExcel has analysed a spreadsheet, then the clicks in the table,  *)
(* the oracle, and the saving, reopening, loading and reconciling of the   *)
(* project                                                                 *)
(***************************************************************************)
\* the state processExcel leaves for the spreadsheet file and the first folder
\* selection files
SessionAnalysed(file, files) ==
  /\ step = "RESULTS"
  /\ excelFile = Some(file)
  /\ rawExcelData = file.sheet
  /\ fileMap = buildFileMap(files, 1, <<>>)
  /\ folderFileCount = countFiles(files)
  /\ results = analyseRows(file.sheet, buildFileMap(files, 1, <<>>), 1)
  /\ isProcessing = FALSE
  /\ projectLoaded = FALSE
  /\ pendingLoad = EmptyBag
  /\ pendingRead = Absent
  /\ saved = Absent
  /\ savedValidated = {}
  /\ uploads = 1
  /\ op = "processExcelDone"
  /\ rBefore = <<>>
  /\ rSource = <<>>
  /\ pendingAI = Absent
  /\ edits = 0
  /\ validated = {}
  /\ oracle = Absent
  /\ exported = Absent

\* the folders the user may pick in a session at the table
TableSelections == {SelectionFull, SelectionPartial}

InitTable ==
  /\ MatcherIdle
  /\ \E files \in TableSelections : SessionAnalysed(WorkbookShort, files)

\* The page is opened again: App is mounted anew, and its state is that of
\* useState's initial values; what was pending belongs to the page that is gone.
\* The project file saved stays on the disk.
AppReopened ==
  /\ step' = "UPLOAD"
  /\ excelFile' = Absent
  /\ rawExcelData' = <<>>
  /\ fileMap' = <<>>
  /\ folderFileCount' = 0
  /\ results' = <<>>
  /\ isProcessing' = FALSE
  /\ projectLoaded' = FALSE
  /\ pendingLoad' = EmptyBag
  /\ pendingRead' = Absent
  /\ pendingAI' = Absent
  /\ validated' = {}
  /\ oracle' = Absent
  /\ rBefore' = <<>>
  /\ rSource' = <<>>
  /\ op' = "mount"
  /\ UNCHANGED <<saved, savedValidated, uploads, edits, exported>>
  /\ UNCHANGED mvars

\* the replies the oracle may give to the call that is waiting
PendingReplies == IF IsSome(pendingAI) THEN OracleReplies(Get(pendingAI)) ELSE {}

\* the project files saved in the session
SavedFiles == IF IsSome(saved) THEN {Get(saved)} ELSE {}

NextTable ==
  \/ /\ edits < MaxTableEdits
     /\ \E k \in 1..Len(results) :
          \E file \in dropdownOptions(results[k], allFilesOf(fileMap)) : handleAddFile(k, file)
  \/ /\ edits < MaxTableEdits
     /\ \E k \in 1..Len(results) :
          \E j \in 1..Len(currentSelectionsOf(results[k])) : handleRemoveFile(k, j)
  \/ /\ edits < MaxTableEdits
     /\ \E k \in 1..Len(results) : confirmMatch(k)
  \/ /\ edits < MaxTableEdits
     /\ \E k \in 1..Len(results) : toggleIgnore(k)
  \/ /\ edits < MaxTableEdits
     /\ \E k \in 1..Len(results) : handleResolveAI(k)
  \/ \E apiKey \in BOOLEAN : \E reply \in PendingReplies :
       handleResolveAIAnswered(apiKey, reply)
  \/ handleResolveAIRejected
  \/ handleSaveProject
  \/ AppReopened
  \/ /\ BagCardinality(pendingLoad) < MaxTableReaders
     /\ \E file \in SavedFiles : handleLoadProject(file)
  \/ readerOnload
  \/ \E files \in TableSelections : handleFolderUpload(files)
  \/ processExcel

SpecTable == InitTable /\ [][NextTable]_vars

(***************************************************************************)
(* Specification of a session at the results table up to the export: the   *)
(* clicks in the table, the oracle, and the writing of the workbook        *)
(***************************************************************************)
NextExport ==
  \/ /\ edits < MaxTableEdits
     /\ \E k \in 1..Len(results) :
          \E file \in dropdownOptions(results[k], allFilesOf(fileMap)) : handleAddFile(k, file)
  \/ /\ edits < MaxTableEdits
     /\ \E k \in 1..Len(results) :
          \E j \in 1..Len(currentSelectionsOf(results[k])) : handleRemoveFile(k, j)
  \/ /\ edits < MaxTableEdits
     /\ \E k \in 1..Len(results) : confirmMatch(k)
  \/ /\ edits < MaxTableEdits
     /\ \E k \in 1..Len(results) : toggleIgnore(k)
  \/ /\ edits < MaxTableEdits
     /\ \E k \in 1..Len(results) : handleResolveAI(k)
  \/ \E apiKey \in BOOLEAN : \E reply \in PendingReplies :
       handleResolveAIAnswered(apiKey, reply)
  \/ handleResolveAIRejected
  \/ handleExport

SpecExport == InitTable /\ [][NextExport]_vars

(***************************************************************************)
(* Specification of a session at the results table that goes on after a    *)
(* validation: a spreadsheet with one ambiguous row and a folder selection  *)
(* of two files, so that the clicks that follow a click on Validar (a file *)
(* removed, a file added again), an answer of the oracle that was asked    *)
(* before the validation, and the saving, reopening, loading and           *)
(* reconciling of the project all come after it                            *)
(***************************************************************************)
\* a spreadsheet of two rows in the range of Ponto 2: row 13 names two versions of
\* a file, row 14 has a quote that never closes
WorkbookVersions ==
  [readable |-> TRUE, sheet |-> SheetOf(<<>>, << Some(TextVersions), Some(TextUnclosed) >>)]

\* the folders the user may pick in this session
ValidateSelections == {SelectionPonto2}

InitValidate ==
  /\ MatcherIdle
  /\ \E files \in ValidateSelections : SessionAnalysed(WorkbookVersions, files)

NextValidate ==
  \/ \E k \in 1..Len(results) :
       \E file \in dropdownOptions(results[k], allFilesOf(fileMap)) : handleAddFile(k, file)
  \/ \E k \in 1..Len(results) :
       \E j \in 1..Len(currentSelectionsOf(results[k])) : handleRemoveFile(k, j)
  \/ \E k \in 1..Len(results) : confirmMatch(k)
  \/ \E k \in 1..Len(results) : toggleIgnore(k)
  \/ \E k \in 1..Len(results) : handleResolveAI(k)
  \/ \E apiKey \in BOOLEAN : \E reply \in PendingReplies :
       handleResolveAIAnswered(apiKey, reply)
  \/ handleResolveAIRejected
  \/ handleSaveProject
  \/ AppReopened
  \/ /\ BagCardinality(pendingLoad) < MaxTableReaders
     /\ \E file \in SavedFiles : handleLoadProject(file)
  \/ readerOnload
  \/ \E files \in ValidateSelections : handleFolderUpload(files)
  \/ processExcel

SpecValidate == InitValidate /\ [][NextValidate]_vars

(***************************************************************************)
(* Fairness. The browser delivers the events it owes: the onload of a      *)
(* FileReader that was started. Nothing bounds the request of the oracle:  *)
(* resolveAmbiguityWithAI awaits generateContent with no timer and no      *)
(* signal, and handleResolveAI awaits it in turn, so no fairness is put on *)
(* its answer.                                                             *)
(***************************************************************************)
SpecTableLive == SpecTable /\ WF_vars(readerOnload)

(***************************************************************************)
(* The application: the records processExcel builds                        *)
(***************************************************************************)
\* the text has no quoted substring: no opening quote followed, after one character
\* or more that are no closing quotes, by a closing quote
ZeroQuoted(text) ==
  ~ \E i \in 1..Len(text) : \E j \in (i + 2)..Len(text) :
      /\ text[i] \in OpenQuotes
      /\ text[j] \in CloseQuotes
      /\ \A k \in (i + 1)..(j - 1) : text[k] \notin CloseQuotes

\* the rows of the sheet that lie in a range of ROW_MAPPINGS and hold a text in
\* column C
TextRows(data) ==
  {i \in 1..Len(data) : IsSome(getTargetFolderForRow(i)) /\ IsSome(columnC(data[i]))}

RecordsOfRow(i) == {k \in 1..Len(results) : results[k].rowId = i}

\* C2: after processExcel, every row (of a mapped range, with a text in column C)
\* whose text has zero quoted substrings has one record; its extractedQueries is
\* empty, its matchStatus is NO_QUERY, and it has neither matchedFile nor candidates,
\* whatever dates the text holds and whatever files its folder holds.
C2_NoQuery ==
  op = "processExcelDone" =>
    \A i \in TextRows(rawExcelData) :
      LET text == Get(columnC(rawExcelData[i]))
      IN ZeroQuoted(text) =>
           /\ extractMetadata(text).queries = <<>>
           /\ Cardinality(RecordsOfRow(i)) = 1
           /\ \A k \in RecordsOfRow(i) :
                /\ results[k].originalContent = text
                /\ results[k].extractedQueries = <<>>
                /\ results[k].matchStatus = "NO_QUERY"
                /\ results[k].matchedFile = Absent
                /\ results[k].candidates = Absent

\* C2 witness: processExcel has built NO_QUERY records for texts without quotes that
\* hold no date, one date and two dates, in a folder that holds files
C2_Witness ==
  /\ op = "processExcelDone"
  /\ \A n \in 0..2 :
       \E k \in 1..Len(results) :
         /\ ZeroQuoted(results[k].originalContent)
         /\ results[k].matchStatus = "NO_QUERY"
         /\ Len(results[k].extractedDates) = n
         /\ \E f \in 1..Len(fileMap) :
              fileMap[f].key = results[k].targetFolder /\ Len(fileMap[f].value) > 0

\* the files a record is resolved to: the manual resolutions when there are any,
\* else the matched file
ResolvedFilesOf(r) ==
  IF IsSome(r.manualResolutions) /\ Len(Get(r.manualResolutions)) > 0
  THEN Get(r.manualResolutions)
  ELSE r.matchedFile

\* every record that is resolved to a file has the File of each of these
HandlesComplete(res) ==
  \A k \in 1..Len(res) : \A n \in 1..Len(ResolvedFilesOf(res[k])) :
    IsSome(ResolvedFilesOf(res[k])[n].fileObject)

\* C12 as claimed: a reconciliation in the application moves to step RESULTS exactly
\* when, after it, every record that is resolved to a file has its Files.
C12_SignalWhenComplete ==
  op = "reconcileFiles" => (step = "RESULTS" <=> HandlesComplete(results))

\* C12, what the code does: a reconciliation in the application is one of a
\* non-empty record list, and it always moves to step RESULTS.
C12_SignalWhenRecords ==
  op = "reconcileFiles" => (Len(results) > 0 /\ step = "RESULTS")

\* C12 witness: a reconciliation has moved to RESULTS with a record whose resolved
\* file has no File
C12_Witness ==
  /\ op = "reconcileFiles"
  /\ step = "RESULTS"
  /\ ~HandlesComplete(results)

\* C13: when a project file is loaded, a record saved with a single manualResolution
\* and no list, or an empty one, gets the list of that one file; any other record
\* keeps its list; and every loaded record whose list is then non-empty has
\* matchStatus FOUND, whatever status the file holds for it.
C13_LoadMigrates ==
  [][(op' = "readerOnload" /\ JustRead /\ hasResults(onloadFile)) =>
       LET stored == Get(onloadFile.results)
       IN /\ Len(results') = Len(stored)
          /\ \A k \in 1..Len(stored) :
               LET single == stored[k].manualResolution
                   list == stored[k].manualResolutions
                   loaded == results'[k].manualResolutions
               IN /\ IF IsSome(single) /\ (list = Absent \/ list = Some(<<>>))
                     THEN loaded = Some(<<Get(single)>>)
                     ELSE loaded = list
                  /\ (IsSome(loaded) /\ Len(Get(loaded)) > 0) =>
                       results'[k].matchStatus = "FOUND"]_vars

\* C13 witness: the loaded records hold one whose single file became the list, and
\* one that keeps its own list next to a single file; both are FOUND
C13_Witness ==
  /\ op = "readerOnload"
  /\ \E k \in 1..Len(results) :
       /\ IsSome(results[k].manualResolution)
       /\ results[k].manualResolutions = Some(<<Get(results[k].manualResolution)>>)
       /\ results[k].matchStatus = "FOUND"
  /\ \E k \in 1..Len(results) :
       /\ IsSome(results[k].manualResolution)
       /\ IsSome(results[k].manualResolutions)
       /\ Len(Get(results[k].manualResolutions)) = 1
       /\ Get(results[k].manualResolutions)[1] /= Get(results[k].manualResolution)
       /\ results[k].matchStatus = "FOUND"

(***************************************************************************)
(* reconcileFiles as a function: applied, with the Files of one folder      *)
(* selection after another, to records whose nodes may or may not have a   *)
(* File already                                                            *)
(***************************************************************************)
MaxRecords == 2

\* a node of Ponto 1 with no File, or with the File of the given selection
NodeWith(name, upload) ==
  [SavedNode(FolderPonto1, name) EXCEPT
     !.fileObject = IF IsSome(upload)
                    THEN Some(FileOf(Get(upload), RelativePath(FolderPonto1, name)))
                    ELSE Absent]

\* a node's File at the start: none, or one from before the first selection (0)
FileObjects == {Absent, Some(0)}

\* the records a row may have: found, ambiguous, resolved by hand, migrated from
\* a single file, ignored
RecordsFor(rowId) ==
  {AnalysisResult(rowId, TextVersions, FolderPonto1, <<>>, <<>>, "FOUND",
     Some(NodeWith(NameV1, h)), Absent) : h \in FileObjects}
  \cup
  {AnalysisResult(rowId, TextVersions, FolderPonto1, <<>>, <<>>, "AMBIGUOUS", Absent,
     Some(<<NodeWith(NameV2, h1), NodeWith(NameV1, h2)>>)) : h1, h2 \in FileObjects}
  \cup
  {[AnalysisResult(rowId, TextVersions, FolderPonto1, <<>>, <<>>, "FOUND", Absent, Absent)
      EXCEPT !.manualResolutions = Some(<<NodeWith(NameFinal, h1), NodeWith(NameV1, h2)>>)] :
     h1, h2 \in FileObjects}
  \cup
  {[AnalysisResult(rowId, TextVersions, FolderPonto1, <<>>, <<>>, "FOUND", Absent, Absent)
      EXCEPT !.manualResolution = Some(NodeWith(NameV2, h)),
             !.manualResolutions = Some(<<NodeWith(NameV2, h)>>),
             !.sharedResolution = TRUE] : h \in FileObjects}
  \cup
  {[AnalysisResult(rowId, TextPlain, FolderPonto1, <<>>, <<>>, "NOT_FOUND", Absent, Absent)
      EXCEPT !.isIgnored = Some(TRUE)]}

\* the record lists: at most MaxRecords records, of the rows from 4 on
ResultLists ==
  UNION {{r \in [1..n -> UNION {RecordsFor(3 + k) : k \in 1..n}] :
            \A k \in 1..n : r[k].rowId = 3 + k} : n \in 0..MaxRecords}

SourceNames == <<NameV1, NameV2, NameFinal>>

\* the folder selections: any of the three files of Ponto 1
SourceSelections ==
  {[i \in 1..Cardinality(S) |-> FileEntry(FolderPonto1, SourceNames[Ascending(S)[i]])] :
     S \in SUBSET (1..Len(SourceNames))}

InitReconcile ==
  /\ MatcherIdle
  /\ step = "UPLOAD"
  /\ excelFile = Absent
  /\ rawExcelData = <<>>
  /\ fileMap = <<>>
  /\ folderFileCount = 0
  /\ results \in ResultLists
  /\ isProcessing = FALSE
  /\ projectLoaded = TRUE
  /\ pendingLoad = EmptyBag
  /\ pendingRead = Absent
  /\ saved = Absent
  /\ savedValidated = {}
  /\ uploads = 0
  /\ op = "mount"
  /\ rBefore = <<>>
  /\ rSource = <<>>
  /\ pendingAI = Absent
  /\ edits = 0
  /\ validated = {}
  /\ oracle = Absent
  /\ exported = Absent

\* reconcileFiles(results, allFilesMap) for the Files of one more folder selection
reconcileFilesCall(files) ==
  /\ uploads < MaxUploads
  /\ LET fileSource == buildAllFilesMap(files, uploads + 1, <<>>)
     IN /\ results' = reconcileFiles(results, fileSource)
        /\ step' = stepAfterReconcile(reconcileFiles(results, fileSource), step)
        /\ rBefore' = results
        /\ rSource' = fileSource
  /\ uploads' = uploads + 1
  /\ op' = "reconcileFiles"
  /\ UNCHANGED <<excelFile, rawExcelData, fileMap, folderFileCount, isProcessing,
                 projectLoaded, pendingLoad, pendingRead, saved, savedValidated>>
  /\ UNCHANGED tablevars
  /\ UNCHANGED <<exported, mvars>>

NextReconcile == \E files \in SourceSelections : reconcileFilesCall(files)

SpecReconcile == InitReconcile /\ [][NextReconcile]_vars

\* the nodes of a record: matchedFile, then manualResolutions, then candidates
NodesOf(r) ==
  r.matchedFile
    \o (IF IsSome(r.manualResolutions) THEN Get(r.manualResolutions) ELSE <<>>)
    \o (IF IsSome(r.candidates) THEN Get(r.candidates) ELSE <<>>)

Reconciled == op = "reconcileFiles"

\* C8: reconcileFiles applied again with the same mapping gives the same records, the
\* same fileObject on every node, and the same step, as applied once.
C8_Idempotent ==
  Reconciled =>
    LET once == reconcileFiles(rBefore, rSource)
        twice == reconcileFiles(once, rSource)
    IN /\ results = once
       /\ twice = once
       /\ \A k \in 1..Len(once) :
            /\ Len(NodesOf(twice[k])) = Len(NodesOf(once[k]))
            /\ \A n \in 1..Len(NodesOf(once[k])) :
                 NodesOf(twice[k])[n].fileObject = NodesOf(once[k])[n].fileObject
       /\ stepAfterReconcile(twice, step) = step

\* C8 witness: the call gave one node its File and left another without one
C8_Witness ==
  /\ Reconciled
  /\ \E k \in 1..Len(results) : \E n \in 1..Len(NodesOf(results[k])) :
       /\ ~IsSome(NodesOf(rBefore[k])[n].fileObject)
       /\ IsSome(NodesOf(results[k])[n].fileObject)
  /\ \E k \in 1..Len(results) : \E n \in 1..Len(NodesOf(results[k])) :
       ~IsSome(NodesOf(results[k])[n].fileObject)
  /\ step = "RESULTS"

\* C9: a node that has a File before reconcileFiles has the same File after it, at
\* every one of the calls.
C9_NeverReplaces ==
  Reconciled =>
    /\ Len(results) = Len(rBefore)
    /\ \A k \in 1..Len(rBefore) :
         /\ Len(NodesOf(results[k])) = Len(NodesOf(rBefore[k]))
         /\ \A n \in 1..Len(NodesOf(rBefore[k])) :
              IsSome(NodesOf(rBefore[k])[n].fileObject) =>
                NodesOf(results[k])[n].fileObject = NodesOf(rBefore[k])[n].fileObject

\* C9 witness: at the second call a node holds the File of the first selection, the
\* second selection has a File for its path, and the node keeps the first
C9_Witness ==
  /\ Reconciled
  /\ uploads = 2
  /\ \E k \in 1..Len(rBefore) : \E n \in 1..Len(NodesOf(rBefore[k])) :
       /\ NodesOf(rBefore[k])[n].fileObject = Some(FileOf(1, NodesOf(rBefore[k])[n].path))
       /\ MapGet(rSource, NodesOf(rBefore[k])[n].path)
            = Some(FileOf(2, NodesOf(rBefore[k])[n].path))
       /\ NodesOf(results[k])[n].fileObject = Some(FileOf(1, NodesOf(rBefore[k])[n].path))

\* the paths that are keys of the mapping
KeysOf(map) == {map[k].key : k \in 1..Len(map)}

\* C11: after reconcileFiles with a mapping, a node that had no File has one exactly
\* when its path is a key of the mapping, and then it is the mapping's File for that
\* path; a node whose path is no key stays without a File.
C11_PartialExact ==
  Reconciled =>
    /\ Len(results) = Len(rBefore)
    /\ \A k \in 1..Len(rBefore) :
         /\ Len(NodesOf(results[k])) = Len(NodesOf(rBefore[k]))
         /\ \A n \in 1..Len(NodesOf(rBefore[k])) :
              LET before == NodesOf(rBefore[k])[n]
                  after == NodesOf(results[k])[n]
              IN ~IsSome(before.fileObject) =>
                   /\ IsSome(after.fileObject) <=> before.path \in KeysOf(rSource)
                   /\ IsSome(after.fileObject) =>
                        /\ Get(after.fileObject).path = before.path
                        /\ \E e \in 1..Len(rSource) :
                             rSource[e].key = before.path /\ rSource[e].value = Get(after.fileObject)

\* C11 witness: a mapping with some files: one node without a File gets the File of
\* its path, another, whose path the mapping lacks, stays without
C11_Witness ==
  /\ Reconciled
  /\ Len(rSource) > 0
  /\ \E k \in 1..Len(rBefore) : \E n \in 1..Len(NodesOf(rBefore[k])) :
       /\ ~IsSome(NodesOf(rBefore[k])[n].fileObject)
       /\ NodesOf(rBefore[k])[n].path \in KeysOf(rSource)
       /\ IsSome(NodesOf(results[k])[n].fileObject)
  /\ \E k \in 1..Len(rBefore) : \E n \in 1..Len(NodesOf(rBefore[k])) :
       /\ ~IsSome(NodesOf(rBefore[k])[n].fileObject)
       /\ NodesOf(rBefore[k])[n].path \notin KeysOf(rSource)
       /\ ~IsSome(NodesOf(results[k])[n].fileObject)

PathsOf(nodes) == [n \in 1..Len(nodes) |-> nodes[n].path]

PathsOfOption(nodes) == IF IsSome(nodes) THEN Some(PathsOf(Get(nodes))) ELSE Absent

\* what a record decides: everything but the fileObject of its nodes
DecisionOf(r) ==
  [rowId |-> r.rowId, originalContent |-> r.originalContent,
   targetFolder |-> r.targetFolder, matchStatus |-> r.matchStatus,
   isIgnored |-> r.isIgnored, extractedQueries |-> r.extractedQueries,
   extractedDates |-> r.extractedDates,
   matchedFile |-> PathsOf(r.matchedFile),
   candidates |-> PathsOfOption(r.candidates),
   manualResolutions |-> PathsOfOption(r.manualResolutions)]

\* C10: reconcileFiles leaves the number and the order of the records and, in every
\* record, rowId, targetFolder, matchStatus, isIgnored, extractedQueries,
\* extractedDates and the paths, in order, of matchedFile, candidates and
\* manualResolutions as they were.
C10_DecisionsKept ==
  Reconciled =>
    /\ Len(results) = Len(rBefore)
    /\ \A k \in 1..Len(rBefore) : DecisionOf(results[k]) = DecisionOf(rBefore[k])

\* C10 witness: the call gave a File to one candidate of an ambiguous row and had
\* none for the other, next to an ignored row
C10_Witness ==
  /\ Reconciled
  /\ \E k \in 1..Len(results) :
       /\ results[k].matchStatus = "AMBIGUOUS"
       /\ ~IsSome(Get(rBefore[k].candidates)[1].fileObject)
       /\ ~IsSome(Get(rBefore[k].candidates)[2].fileObject)
       /\ ~IsSome(Get(results[k].candidates)[1].fileObject)
       /\ IsSome(Get(results[k].candidates)[2].fileObject)
  /\ \E k \in 1..Len(results) : results[k].isIgnored = Some(TRUE)

(***************************************************************************)
(* The session at the table: saving, loading again, reconciling            *)
(***************************************************************************)
\* the manual files of a record, none when the list is missing
ManualOf(r) == currentSelectionsOf(r)

\* handleSaveProject writes every record with the paths of its manual files, in
\* their order, and the status, as the session holds them, and no File
SavedAsHeld ==
  op' = "handleSaveProject" =>
    LET stored == Get(Get(saved').results)
    IN /\ Len(stored) = Len(results)
       /\ \A k \in 1..Len(results) :
            /\ PathsOf(ManualOf(stored[k])) = PathsOf(ManualOf(results[k]))
            /\ stored[k].matchStatus = results[k].matchStatus
            /\ \A n \in 1..Len(ManualOf(stored[k])) :
                 ~IsSome(ManualOf(stored[k])[n].fileObject)

\* the records that were reconciled are those of the project file saved, as
\* handleLoadProject sets them
LoadedFromSaved == IsSome(saved) /\ rBefore = migratedResultsOf(Get(saved))

\* after the project saved is loaded and reconciled with a folder selection, a
\* record saved with manual files has the same paths in the same order, a File on
\* each of them whose path the selection holds, and the status FOUND
ReloadedAsSaved ==
  (op = "reconcileFiles" /\ LoadedFromSaved) =>
    LET stored == Get(Get(saved).results)
    IN /\ Len(results) = Len(stored)
       /\ \A k \in 1..Len(stored) :
            Len(ManualOf(stored[k])) > 0 =>
              /\ PathsOf(ManualOf(results[k])) = PathsOf(ManualOf(stored[k]))
              /\ \A n \in 1..Len(ManualOf(results[k])) :
                   ManualOf(results[k])[n].path \in KeysOf(rSource) =>
                     ManualOf(results[k])[n].fileObject
                       = Some(FileOf(uploads, ManualOf(results[k])[n].path))
              /\ results[k].matchStatus = "FOUND"

\* C14: a record with manual files that is saved, loaded again and reconciled with
\* a folder selection keeps the paths of its manual files in their order, from the
\* session to the file and from the file to the reconciled record; each manual
\* file whose path the selection holds gets that selection's File; and the status
\* of the reconciled record is FOUND.
C14_RoundTrip == [][SavedAsHeld]_vars /\ []ReloadedAsSaved

\* a record saved with two manual files and not validated, loaded in a page opened
\* again and reconciled with a selection that holds both paths
C14_Witness ==
  /\ op = "reconcileFiles"
  /\ LoadedFromSaved
  /\ \E k \in 1..Len(results) :
       /\ Len(ManualOf(Get(Get(saved).results)[k])) = 2
       /\ Get(Get(saved).results)[k].matchStatus /= "FOUND"
       /\ \A n \in 1..2 :
            /\ ~IsSome(ManualOf(rBefore[k])[n].fileObject)
            /\ ManualOf(results[k])[n].fileObject
                 = Some(FileOf(2, ManualOf(results[k])[n].path))
       /\ results[k].matchStatus = "FOUND"

\* from the records before to the records after, every status is kept or goes from
\* AMBIGUOUS or NOT_FOUND to FOUND
StatusKeptOrFound(before, after) ==
  /\ Len(after) = Len(before)
  /\ \A k \in 1..Len(before) :
       before[k].matchStatus /= after[k].matchStatus =>
         /\ before[k].matchStatus \in {"AMBIGUOUS", "NOT_FOUND"}
         /\ after[k].matchStatus = "FOUND"

\* C15: in a session at the table, no step takes a record out of FOUND, and the
\* only change of a status is from AMBIGUOUS or NOT_FOUND to FOUND: from the records
\* to the records for a click in the table, an answer of the oracle, a folder
\* selection with its reconciliation; from the records to the file for a save; from
\* the file to the records for a load.
C15_FoundKept ==
  [][CASE op' = "mount" -> TRUE
       [] op' = "readerOnload" ->
            (JustRead /\ hasResults(onloadFile)) =>
              StatusKeptOrFound(Get(onloadFile.results), results')
       [] op' = "handleSaveProject" ->
            /\ StatusKeptOrFound(results, Get(Get(saved').results))
            /\ StatusKeptOrFound(results, results')
       [] OTHER -> StatusKeptOrFound(results, results')]_vars

\* a record the oracle's answer made FOUND, whose only manual file the user then
\* removed: FOUND with no file at all
C15_Witness ==
  /\ op = "handleRemoveFile"
  /\ \E k \in 1..Len(results) :
       /\ results[k].matchStatus = "FOUND"
       /\ results[k].manualResolutions = Some(<<>>)
       /\ ~IsSome(results[k].matchedFile)

\* C16: in every state of a session at the table, a record that confirmMatch was
\* applied to and that has a manual file is FOUND: after the validation itself,
\* after the clicks that follow it, after an answer of the oracle to a question
\* asked before it, and after the project is saved, loaded again and reconciled.
C16_ValidatedFound ==
  \A k \in 1..Len(results) :
    (results[k].rowId \in validated /\ Len(ManualOf(results[k])) > 0) =>
      results[k].matchStatus = "FOUND"

\* The oracle was asked about an ambiguous record; before it answered, a file was
\* added to the record by hand and the record was validated; the answer then put
\* the record of the question, with the one file the oracle named, in its place.
\* The record is the only one with candidates, so the question was about it.
C16_Witness ==
  /\ op = "handleResolveAIAccepted"
  /\ edits = 3
  /\ \E k \in 1..Len(results) :
       /\ results[k].rowId \in validated
       /\ IsSome(results[k].candidates)
       /\ \A j \in 1..Len(results) : IsSome(results[j].candidates) => j = k
       /\ Len(ManualOf(results[k])) = 1
       /\ ManualOf(results[k])[1].name = Get(Get(oracle).reply.bestMatchFilename)
       /\ results[k].matchStatus = "FOUND"

\* a record validated with one manual file, to which a second was then added
C16_EditedAfter ==
  /\ op = "handleAddFile"
  /\ \E k \in 1..Len(results) :
       /\ results[k].rowId \in validated
       /\ Len(ManualOf(results[k])) = 2
       /\ results[k].matchStatus = "FOUND"

\* A record validated with one manual file and saved; the file was then removed,
\* which leaves the record FOUND with no file, and another file was added.
C16_AddedAgain ==
  /\ op = "handleAddFile"
  /\ edits = 4
  /\ IsSome(saved)
  /\ \E k \in 1..Len(results) :
       /\ results[k].rowId \in validated \cap savedValidated
       /\ Len(ManualOf(results[k])) = 1
       /\ results[k].matchStatus = "FOUND"
       /\ \E j \in 1..Len(Get(Get(saved).results)) :
            LET stored == Get(Get(saved).results)[j]
            IN /\ stored.rowId = results[k].rowId
               /\ Len(ManualOf(stored)) = 1
               /\ ManualOf(stored)[1].path # ManualOf(results[k])[1].path

\* a record validated, saved, loaded again in a page opened anew and reconciled
C16_Reloaded ==
  /\ op = "reconcileFiles"
  /\ LoadedFromSaved
  /\ \E k \in 1..Len(results) :
       /\ results[k].rowId \in validated
       /\ Len(ManualOf(results[k])) > 0
       /\ IsSome(ManualOf(results[k])[1].fileObject)
       /\ results[k].matchStatus = "FOUND"

\* the steps of the table and of the oracle, by the value they leave in op
TableOps ==
  {"handleAddFile", "handleRemoveFile", "confirmMatch", "toggleIgnore", "handleResolveAI",
   "handleResolveAIAccepted", "handleResolveAIAlert", "handleResolveAIRejected"}

\* the records processExcel has just built have candidates exactly when the status
\* is AMBIGUOUS and a matchedFile exactly when it is FOUND
CreatedAsDecided ==
  op = "processExcelDone" =>
    \A k \in 1..Len(results) :
      /\ IsSome(results[k].candidates) <=> results[k].matchStatus = "AMBIGUOUS"
      /\ IsSome(results[k].matchedFile) <=> results[k].matchStatus = "FOUND"

\* a step of the table or of the oracle leaves the candidates of every record as
\* they are: defined or not, the same paths in the same order
CandidatesKept ==
  op' \in TableOps =>
    /\ Len(results') = Len(results)
    /\ \A k \in 1..Len(results) :
         PathsOfOption(results'[k].candidates) = PathsOfOption(results[k].candidates)

\* C17: a record has candidates only if findBestMatch decided AMBIGUOUS for it when
\* processExcel built it, and a matchedFile only if it decided FOUND; and every later
\* edit of the manual files, validation, toggle of the ignore flag and answer of the
\* oracle leaves the candidates unchanged, whatever the status has become.
C17_CandidatesKept == []CreatedAsDecided /\ [][CandidatesKept]_vars

\* a record created AMBIGUOUS that the oracle's answer made FOUND and whose manual
\* file was then removed: it still has its three candidates
C17_Witness ==
  /\ op = "handleRemoveFile"
  /\ \E k \in 1..Len(results) :
       /\ results[k].matchStatus = "FOUND"
       /\ results[k].manualResolutions = Some(<<>>)
       /\ IsSome(results[k].candidates)
       /\ Len(Get(results[k].candidates)) = 3

(***************************************************************************)
(* The session at the table: the answers of the oracle                     *)
(***************************************************************************)
\* the call met no API key, a rejected promise, a text that does not parse, an object
\* with no name or an empty name
OracleFailed(call) ==
  \/ ~call.apiKey
  \/ call.reply.kind \in {"rejects", "unparsable"}
  \/ call.reply.bestMatchFilename \in {Absent, Some(<<>>)}

\* C18: when the call of the oracle fails (no API key, a rejected promise, an answer
\* that does not parse, a throw before the request) or gives no name or an empty
\* one, handleResolveAI leaves every record as it is: none becomes FOUND, none gets
\* a manual file.
C18_FailureKeepsRecords ==
  [][(\/ op' = "handleResolveAIRejected"
      \/ op' \in {"handleResolveAIAccepted", "handleResolveAIAlert"}
           /\ OracleFailed(Get(oracle')))
       => results' = results]_vars

\* the oracle's answer did not parse, and the record it was asked about is as it was
\* at the click: AMBIGUOUS, with its candidates and no manual file
C18_Witness ==
  /\ op = "handleResolveAIAlert"
  /\ oracle = Some([apiKey |-> TRUE, reply |-> ReplyUnparsable])
  /\ \E k \in 1..Len(results) :
       /\ results[k].matchStatus = "AMBIGUOUS"
       /\ Len(ManualOf(results[k])) = 0
       /\ Len(Get(results[k].candidates)) = 3
  /\ edits = 1

\* the names of the candidates of a record
CandidateNamesOf(r) ==
  {Get(r.candidates)[n].name : n \in 1..Len(Get(r.candidates))}

\* the oracle's name is that of no candidate of the record it was asked about: an
\* alert, and no record changes
NotListedRefused ==
  (/\ op' \in {"handleResolveAIAccepted", "handleResolveAIAlert"}
   /\ ~OracleFailed(Get(oracle'))
   /\ Get(Get(oracle').reply.bestMatchFilename) \notin CandidateNamesOf(Get(pendingAI)))
    => (op' = "handleResolveAIAlert" /\ results' = results)

\* the oracle's answer is accepted: the record asked about has one manual file, a
\* candidate of the record with the name the oracle gave, and the others are as
\* they were
AcceptedIsCandidate ==
  op' = "handleResolveAIAccepted" =>
    /\ Len(results') = Len(results)
    /\ \A k \in 1..Len(results) :
         IF results[k].rowId = Get(pendingAI).rowId
         THEN /\ Len(ManualOf(results'[k])) = 1
              /\ \E n \in 1..Len(Get(results'[k].candidates)) :
                   ManualOf(results'[k])[1] = Get(results'[k].candidates)[n]
              /\ ManualOf(results'[k])[1].name = Get(Get(oracle').reply.bestMatchFilename)
              /\ PathsOfOption(results'[k].candidates)
                   = PathsOfOption(Get(pendingAI).candidates)
         ELSE results'[k] = results[k]

\* C19: a name of the oracle that no candidate of the record has is answered with an
\* alert and changes no record; and an answer that is accepted puts one file into
\* manualResolutions, a candidate of that record, and nothing else changes.
C19_OnlyCandidates == [][NotListedRefused /\ AcceptedIsCandidate]_vars

\* the oracle named a file that is no candidate; the record asked about is as it was
C19_Witness ==
  /\ op = "handleResolveAIAlert"
  /\ oracle = Some([apiKey |-> TRUE, reply |-> ReplyJson(Some(NameFinal))])
  /\ \E k \in 1..Len(results) :
       /\ results[k].matchStatus = "AMBIGUOUS"
       /\ Len(ManualOf(results[k])) = 0
       /\ NameFinal \notin CandidateNamesOf(results[k])
       /\ Len(Get(results[k].candidates)) = 3
  /\ edits = 1

(***************************************************************************)
(* isProcessing: set, and cleared again                                    *)
(***************************************************************************)
\* C20 as claimed, for handleResolveAI: once the call of the oracle is started and
\* isProcessing is true, isProcessing is false again at some later time, whatever
\* the oracle does.
C20_OverlayRemoved == (IsSome(pendingAI) /\ isProcessing) ~> ~isProcessing

\* C20, for processExcel: the step that follows await readExcelFile clears
\* isProcessing, whether the file could be read or not.
C20_ProcessExcelClears ==
  [][op' \in {"processExcelDone", "processExcelFailed"} =>
       (IsSome(pendingRead) /\ isProcessing /\ ~isProcessing' /\ pendingRead' = Absent)]_vars

\* the promise of the oracle's call was rejected: handleResolveAI is over, and
\* isProcessing is still true, with the overlay over the table
C20_Witness ==
  /\ op = "handleResolveAIRejected"
  /\ pendingAI = Absent
  /\ isProcessing
  /\ step = "RESULTS"

(***************************************************************************)
(* Failures: a spreadsheet that cannot be read                             *)
(***************************************************************************)
\* C21: the step of processExcel that follows await readExcelFile, for a file that
\* cannot be read, ends in step UPLOAD with isProcessing false and leaves results,
\* rawExcelData, fileMap and projectLoaded as they were; and so does the step that
\* starts the run.
C21_ParseFailureAborts ==
  [][/\ (/\ IsSome(pendingRead)
         /\ ~Get(pendingRead).excelFile.readable
         /\ op' \in {"processExcelDone", "processExcelFailed"})
          => /\ step' = "UPLOAD"
             /\ ~isProcessing'
             /\ UNCHANGED <<results, rawExcelData, fileMap, projectLoaded>>
     /\ op' = "processExcel"
          => UNCHANGED <<results, rawExcelData, fileMap, projectLoaded>>]_vars

\* the run failed on the unreadable file while the records of a project, loaded
\* in the meantime, were held: they are still there
C21_Witness ==
  /\ op = "processExcelFailed"
  /\ excelFile = Some(WorkbookUnreadable)
  /\ step = "UPLOAD"
  /\ ~isProcessing
  /\ Len(results) > 0
  /\ Len(fileMap) > 0

(***************************************************************************)
(* Failures: a project file that cannot be loaded                          *)
(***************************************************************************)
\* the file whose reader ends in this step gives no list of well-formed records
Undeserializable == JustRead /\ loadOutcome(onloadFile) /= "loaded"

\* the steps of reader.onload, by the value they leave in op
OnloadOps == {"readerOnload", "readerOnloadError", "readerOnloadSkipped"}

\* C22 as claimed: reader.onload, for a file that cannot be deserialized, reports
\* the failure and leaves results, rawExcelData, projectLoaded and step as they
\* were.
C22_LoadFailureReported ==
  [][(Undeserializable /\ op' \in OnloadOps) =>
       /\ op' = "readerOnloadError"
       /\ UNCHANGED <<results, rawExcelData, projectLoaded, step>>]_vars

\* C22, what the code does: the state is left as it was for every such file, and
\* the failure is reported when something throws: a text that does not parse, the
\* text null, a record that is null.
C22_LoadFailureKeepsState ==
  [][(Undeserializable /\ op' \in OnloadOps) =>
       /\ UNCHANGED <<results, rawExcelData, projectLoaded, step>>
       /\ op' = "readerOnloadError" <=>
            \/ ~onloadFile.parses
            \/ throwsOnResults(onloadFile)
            \/ hasResults(onloadFile)]_vars

\* a reader ended with the alert while another reader was still reading
C22_FailedWhileReading == op = "readerOnloadError" /\ pendingLoad # EmptyBag

\* a file that parses to an object with no results was read: nothing was reported
C22_Witness ==
  /\ op = "readerOnloadSkipped"
  /\ ~projectLoaded
  /\ pendingLoad = EmptyBag

(***************************************************************************)
(* Export: the cell of a record that has a resolution                      *)
(***************************************************************************)
\* the files a record is resolved to: the manual ones when there are any, else the
\* file of the classifier
ResolutionOf(r) ==
  IF IsSome(r.manualResolutions) /\ Get(r.manualResolutions) # <<>>
  THEN Get(r.manualResolutions)
  ELSE IF IsSome(r.matchedFile) THEN <<Get(r.matchedFile)>> ELSE <<>>

RECURSIVE NamesListed(_)
NamesListed(files) ==
  IF Len(files) = 1 THEN files[1].name
  ELSE files[1].name \o <<",", " ">> \o NamesListed(Tail(files))

\* the cell of column index 3 in the row of record r of the workbook exported, or
\* Absent when the row or the cell is not there
ExportedCellOf(r) ==
  IF ~IsSome(exported) THEN Absent
  ELSE IF r.rowId > Len(Get(exported)) THEN Absent
  ELSE IF Len(Get(exported)[r.rowId]) < 4 THEN Absent
  ELSE Get(exported)[r.rowId][4]

\* the workbook just exported is the one of the records as they are
JustExported == op = "handleExport" /\ IsSome(exported)

\* C23: after an export, every record with a resolution (manual selections, else the
\* matched file) has in column index 3 of row rowId - 1 a hyperlink cell: its target
\* is the path of the first resolved file, its text the names of the resolved files,
\* with the multiple marker in front exactly when more than one file is resolved
C23_ExportLinks ==
  JustExported =>
    \A k \in 1..Len(results) :
      LET files == ResolutionOf(results[k])
          cell  == ExportedCellOf(results[k])
      IN files # <<>> =>
           /\ IsSome(cell)
           /\ Get(cell).t = "s"
           /\ Get(cell).Target = Some(files[1].path)
           /\ Get(cell).v = (IF Len(files) > 1 THEN MultipleMarker ELSE <<>>)
                              \o NamesListed(files)

\* an export of a record that has a matched file and two manual selections
C23_Witness ==
  /\ JustExported
  /\ \E k \in 1..Len(results) :
       /\ IsSome(results[k].matchedFile)
       /\ IsSome(results[k].manualResolutions)
       /\ Len(Get(results[k].manualResolutions)) > 1

(***************************************************************************)
(* Export: the rows left alone and the rows flagged                        *)
(***************************************************************************)
\* the row of record r in the workbook read, empty when the sheet is shorter
OriginalRowOf(r) ==
  IF r.rowId <= Len(rawExcelData) THEN rawExcelData[r.rowId] ELSE <<>>

\* the export left the row of record r as it was read
NothingWritten(r) ==
  /\ r.rowId <= Len(Get(exported))
  /\ Get(exported)[r.rowId] = OriginalRowOf(r)

\* the export wrote the text v, with no link, to column index 3 of the row of r
TextWritten(r, v) == ExportedCellOf(r) = Some([t |-> "text", v |-> v, Target |-> Absent])

\* the rows that are flagged: a NOT_FOUND record that is not ignored and has no
\* resolution gets the failure marker, an AMBIGUOUS record that has no resolution and
\* is not ignored gets the text that lists the names of its candidates
FlaggedRows ==
  \A k \in 1..Len(results) :
    LET r == results[k]
    IN /\ (r.matchStatus = "NOT_FOUND" /\ ~isIgnoredOf(r) /\ ResolutionOf(r) = <<>>)
            => TextWritten(r, FailureMarker)
       /\ (r.matchStatus = "AMBIGUOUS" /\ ~isIgnoredOf(r) /\ ResolutionOf(r) = <<>>)
            => TextWritten(r, AmbiguousMarker \o
                 (IF IsSome(r.candidates) /\ Get(r.candidates) # <<>>
                  THEN NamesListed(Get(r.candidates)) ELSE <<>>))

\* C24: after an export, nothing is written to column 3 of the row of a NO_QUERY
\* record or of an ignored record, whatever its matchStatus; a NOT_FOUND record that is
\* not ignored has the failure marker, an AMBIGUOUS record without a resolution has the
\* flagged text with the names of its candidates
C24_ExportBlanks ==
  JustExported =>
    /\ \A k \in 1..Len(results) :
         (results[k].matchStatus = "NO_QUERY" \/ isIgnoredOf(results[k]))
           => NothingWritten(results[k])
    /\ FlaggedRows

\* C24, what the export does: the row of a NO_QUERY record and of an ignored NOT_FOUND
\* record without a resolution is left alone, and the rows that are not ignored are
\* flagged as said; an ignored AMBIGUOUS record without a resolution has the flagged
\* text all the same
C24_ExportBlanksNotFound ==
  JustExported =>
    /\ \A k \in 1..Len(results) :
         LET r == results[k]
         IN /\ r.matchStatus = "NO_QUERY" => NothingWritten(r)
            /\ (isIgnoredOf(r) /\ r.matchStatus = "NOT_FOUND" /\ ResolutionOf(r) = <<>>)
                 => NothingWritten(r)
            /\ (isIgnoredOf(r) /\ r.matchStatus = "AMBIGUOUS" /\ ResolutionOf(r) = <<>>)
                 => TextWritten(r, AmbiguousMarker \o
                      (IF IsSome(r.candidates) /\ Get(r.candidates) # <<>>
                       THEN NamesListed(Get(r.candidates)) ELSE <<>>))
    /\ FlaggedRows

\* an export of an AMBIGUOUS record the user has set to ignored: its row has a cell in
\* column index 3
C24_Witness ==
  /\ JustExported
  /\ \E k \in 1..Len(results) :
       /\ results[k].matchStatus = "AMBIGUOUS"
       /\ isIgnoredOf(results[k])
       /\ IsSome(ExportedCellOf(results[k]))

\* an export of a session with a NO_QUERY record and an ignored NOT_FOUND record
C24_WitnessNotFound ==
  /\ JustExported
  /\ \E k \in 1..Len(results) : results[k].matchStatus = "NO_QUERY"
  /\ \E k \in 1..Len(results) :
       results[k].matchStatus = "NOT_FOUND" /\ isIgnoredOf(results[k])

(***************************************************************************)
(* Results table: a selection edit leaves the status alone                 *)
(***************************************************************************)
\* the steps that edit the manual selection of a record
SelectionOps == {"handleAddFile", "handleRemoveFile"}

\* the steps that may make a record FOUND
PromotingOps == {"confirmMatch", "handleResolveAIAccepted"}

\* C25: a step that adds a file to the manual selection of a record, or removes one,
\* leaves the matchStatus of every record as it was; and among the steps of the table
\* and of the oracle, one that takes a record from another status to FOUND is a click
\* on validate or an accepted answer of the oracle
C25_SelectionKeepsStatus ==
  [][/\ op' \in SelectionOps =>
          /\ Len(results') = Len(results)
          /\ \A k \in 1..Len(results) : results'[k].matchStatus = results[k].matchStatus
     /\ (/\ op' \in TableOps
         /\ Len(results') = Len(results)
         /\ \E k \in 1..Len(results) :
              results[k].matchStatus # "FOUND" /\ results'[k].matchStatus = "FOUND")
          => op' \in PromotingOps]_vars

\* a file has just been added to the manual selection of a record that is AMBIGUOUS or
\* NOT_FOUND: it has manual selections and is not FOUND
C25_Witness ==
  /\ op = "handleAddFile"
  /\ \E k \in 1..Len(results) :
       /\ results[k].matchStatus \in {"AMBIGUOUS", "NOT_FOUND"}
       /\ Len(ManualOf(results[k])) > 0

(***************************************************************************)
(* Resumed session: the records shown have the Files of the folder         *)
(***************************************************************************)
\* the paths of the files of the folder selected last that are in a Ponto folder
EnumeratedPaths == {allFilesOf(fileMap)[i].path : i \in 1..Len(allFilesOf(fileMap))}

\* every node of every record whose path is among the files of the folder has the File
HandlesAttached(res) ==
  \A k \in 1..Len(res) : \A n \in 1..Len(NodesOf(res[k])) :
    NodesOf(res[k])[n].path \in EnumeratedPaths => IsSome(NodesOf(res[k])[n].fileObject)

\* C26: in a session resumed from a project file, whenever the step is RESULTS every
\* node of a record (matchedFile, candidates, manualResolutions) whose path is among
\* the files of the folder has its File, in whatever order the project was loaded,
\* the folder selected and the resume button pressed
C26_ResumedReconciled ==
  (projectLoaded /\ step = "RESULTS") => HandlesAttached(results)

\* C26, what the code does: when the folder is selected after the project was loaded,
\* the reconciliation has attached the File to every node whose path is in the folder
C26_ReconciledOnUpload ==
  (projectLoaded /\ op = "reconcileFiles") => HandlesAttached(results)

\* the resume button has taken a loaded project to RESULTS with a node whose file is
\* in the folder and has no File: the folder was selected before the project was loaded
C26_Witness ==
  /\ projectLoaded
  /\ step = "RESULTS"
  /\ op = "processExcel"
  /\ ~HandlesAttached(results)

\* a folder selected after the load of a project whose files are in it
C26_WitnessOnUpload ==
  /\ projectLoaded
  /\ op = "reconcileFiles"
  /\ \E k \in 1..Len(results) : \E n \in 1..Len(NodesOf(results[k])) :
       NodesOf(results[k])[n].path \in EnumeratedPaths

(***************************************************************************)
(* Results table: a FOUND record and its file                              *)
(***************************************************************************)
\* the export wrote a hyperlink cell to the row of record r
LinkWritten(r) == IsSome(ExportedCellOf(r)) /\ Get(ExportedCellOf(r)).t = "s"

\* C27: in every state of a session at the table, a record whose matchStatus is FOUND
\* has a resolved file (a matchedFile or a manual selection that is not empty), and
\* right after an export its row has a hyperlink cell; also after manual selections
\* were removed from a record that is FOUND
C27_FoundResolved ==
  \A k \in 1..Len(results) :
    results[k].matchStatus = "FOUND" =>
      /\ ResolutionOf(results[k]) # <<>>
      /\ JustExported => LinkWritten(results[k])

\* C27, what the code keeps: a record that a step of the table or of the oracle makes
\* FOUND has a resolved file right after that step, and so has every FOUND record of
\* an analysis just made
C27_ResolvedWhenMadeFound ==
  [][/\ (op' \in TableOps /\ Len(results') = Len(results)) =>
          \A k \in 1..Len(results) :
            (results[k].matchStatus # "FOUND" /\ results'[k].matchStatus = "FOUND")
              => ResolutionOf(results'[k]) # <<>>
     /\ op' = "processExcelDone" =>
          \A k \in 1..Len(results') :
            results'[k].matchStatus = "FOUND" => ResolutionOf(results'[k]) # <<>>]_vars

\* an export of a FOUND record whose files the user has all removed: it has no
\* resolved file and its row has no cell in column index 3
C27_Witness ==
  /\ JustExported
  /\ \E k \in 1..Len(results) :
       /\ results[k].matchStatus = "FOUND"
       /\ ResolutionOf(results[k]) = <<>>
       /\ ~IsSome(ExportedCellOf(results[k]))

(***************************************************************************)
(* Results table: an action on a record changes that record only           *)
(***************************************************************************)
\* the steps that update a record through handleUpdateResult
UpdateOps ==
  {"handleAddFile", "handleRemoveFile", "confirmMatch", "toggleIgnore",
   "handleResolveAIAccepted"}

\* the rowIds of the records differ pairwise
RowIdsDistinct(res) ==
  \A k, n \in 1..Len(res) : k # n => res[k].rowId # res[n].rowId

\* C29: a step that updates a record (a selection edit, validate, the ignore toggle,
\* an accepted answer of the oracle) leaves the number of the records and their order,
\* changes at most one record, and that record keeps its rowId; the rowIds of the
\* records differ pairwise before and after
C29_OneRecordUpdated ==
  [][op' \in UpdateOps =>
       /\ Len(results') = Len(results)
       /\ \A k \in 1..Len(results) : results'[k].rowId = results[k].rowId
       /\ \A k, n \in 1..Len(results) :
            (results'[k] # results[k] /\ results'[n] # results[n]) => k = n
       /\ RowIdsDistinct(results)
       /\ RowIdsDistinct(results')]_vars

\* a click has just changed a record that is not the first of a list of several
C29_Witness ==
  /\ op \in UpdateOps
  /\ Len(results) > 2
  /\ edits = 1
  /\ \E k \in 2..Len(results) :
       IsSome(results[k].manualResolutions) \/ IsSome(results[k].isIgnored)

(***************************************************************************)
(* Matcher run: what a classification should be, told from the pair scores *)
(* alone, not from the code's lists                                        *)
(***************************************************************************)
\* the largest of a set of scores
MaxScore(S) == CHOOSE x \in S : \A y \in S : NumAtLeast(x, y)

\* the sum of two numbers, not rounded: a numeral of any length and its exponent
ExactSum(x, y) ==
  LET e == IF x.e <= y.e THEN x.e ELSE y.e
  IN [m |-> BinAdd(x.m \o Zeros(x.e - e), y.m \o Zeros(y.e - e)), e |-> e]

\* x < y for two such values
ExactLess(x, y) ==
  LET e == IF x.e <= y.e THEN x.e ELSE y.e
  IN BinLess(BinTrim(x.m \o Zeros(x.e - e)), BinTrim(y.m \o Zeros(y.e - e)))

\* ten times x, exactly: 8x + 2x
TenTimes(x) == ExactSum([m |-> x.m, e |-> x.e + 3], [m |-> x.m, e |-> x.e + 1])

\* b - r > 0.1 for the values of two scores and the decimal 0.1: 10b > 10r + 1
LeadsByMoreThanTenth(b, r) ==
  ExactLess(ExactSum(TenTimes(r), [m |-> <<1>>, e |-> 0]), TenTimes(b))

\* b > r + 0.1 as the code computes it: the sum is made of the doubles r and 0.1 and
\* rounded to a double
LeadsByRoundedMargin(b, r) == NumLess(NumAdd(r, WIN_MARGIN), b)

SetMin(S) == CHOOSE x \in S : \A y \in S : x <= y

Classified == mPhase = "classified"

\* the scores the pairs (query q, file i of the pool) reached, Absent where skipped
PairScores == mScores

\* the pairs whose final score is at least 0.55
Reaching(ps) ==
  {p \in (1..Len(mMeta.queries)) \X (1..Len(mPool)) :
     IsSome(ps[p[1]][p[2]]) /\ NumAtLeast(Get(ps[p[1]][p[2]]), SCORE_THRESHOLD)}

\* the files of the pool that some query scores at least 0.55
SurvivorsOf(ps) == {p[2] : p \in Reaching(ps)}

\* the highest score a surviving file reaches over the row's queries
KeptScoreOf(ps, i) == MaxScore({Get(ps[p[1]][p[2]]) : p \in {r \in Reaching(ps) : r[2] = i}})

\* the place of a file's first surviving pair in the order the pairs are scored:
\* query by query, and for one query in the order of the pool
FirstScoredOf(ps, i) ==
  SetMin({(p[1] - 1) * Len(mPool) + p[2] : p \in {r \in Reaching(ps) : r[2] = i}})

\* the files of a result, as indexes into the pool
ResultFiles ==
  IF IsSome(mResult.file) THEN <<Get(mResult.file)>>
  ELSE IF IsSome(mResult.candidates) THEN Get(mResult.candidates)
  ELSE <<>>

\* what the margin rule makes of the survivors, Leads(b, r) telling whether the best
\* score b beats the runner-up's score r by the margin
MarginRule(Leads(_, _)) ==
  Classified =>
    LET ps == PairScores
        surv == SurvivorsOf(ps)
    IN surv /= {} =>
         LET best == MaxScore({KeptScoreOf(ps, i) : i \in surv})
             bi == CHOOSE i \in surv : KeptScoreOf(ps, i) = best
             others == surv \ {bi}
             decisive ==
               \/ others = {}
               \/ NumLess(HIGH_SCORE, best)
               \/ Leads(best, MaxScore({KeptScoreOf(ps, j) : j \in others}))
         IN IF decisive
            THEN /\ mResult.status = "FOUND"
                 /\ mResult.candidates = Absent
                 /\ \E i \in surv : mResult.file = Some(mPool[i]) /\ KeptScoreOf(ps, i) = best
            ELSE mResult.status = "AMBIGUOUS"

\* C1 as claimed: whenever a candidate survives, the row is FOUND with the best-scored
\* file when there is no runner-up, or the best score less the runner-up's score is
\* more than 0.1, or the best score exceeds 1.2; otherwise it is AMBIGUOUS.
C1_MarginRule == MarginRule(LeadsByMoreThanTenth)

\* C1 amended: whenever a candidate survives, the row is FOUND with the best-scored
\* file when there is no runner-up, or the best score exceeds the double that the sum
\* runnerUp.score + 0.1 rounds to, or the best score exceeds 1.2; otherwise it is
\* AMBIGUOUS.
C1_MarginRuleRounded == MarginRule(LeadsByRoundedMargin)

\* C1 witness: two survivors, the best at most 1.2 and more than 0.1 above the other,
\* yet equal to the double that the other's score plus 0.1 rounds to: AMBIGUOUS
C1_Witness ==
  /\ Classified
  /\ mResult.status = "AMBIGUOUS"
  /\ LET ps == PairScores
         surv == SurvivorsOf(ps)
     IN /\ Cardinality(surv) = 2
        /\ \E i, j \in surv :
             /\ LeadsByMoreThanTenth(KeptScoreOf(ps, i), KeptScoreOf(ps, j))
             /\ KeptScoreOf(ps, i) = NumAdd(KeptScoreOf(ps, j), WIN_MARGIN)
             /\ NumAtLeast(HIGH_SCORE, KeptScoreOf(ps, i))

\* C3: deduplication by path keeps, for every path that some query scores at least
\* 0.55, exactly one entry, and its score is the maximum of that path's scores.
C3_DedupKeepsMax ==
  Classified =>
    LET ps == PairScores
    IN /\ \A i \in SurvivorsOf(ps) :
            LET at == {k \in 1..Len(mKept) : mKept[k].file.path = mPool[i].path}
            IN /\ Cardinality(at) = 1
               /\ \A k \in at : mKept[k].score = KeptScoreOf(ps, i) /\ mKept[k].file = mPool[i]
       /\ \A k \in 1..Len(mKept) :
            \E i \in SurvivorsOf(ps) : mKept[k].file.path = mPool[i].path

\* C3 witness: one file scored by two queries, the later score the higher one
C3_Witness ==
  /\ Classified
  /\ Len(mMeta.queries) = 2
  /\ \E i \in 1..Len(mPool) :
       /\ IsSome(mScores[1][i]) /\ IsSome(mScores[2][i])
       /\ NumAtLeast(Get(mScores[1][i]), SCORE_THRESHOLD)
       /\ NumLess(Get(mScores[1][i]), Get(mScores[2][i]))
       /\ \E k \in 1..Len(mKept) :
            mKept[k].file = mPool[i] /\ mKept[k].score = Get(mScores[2][i])

\* C4: with at least one query the result is NOT_FOUND exactly when no pair reaches
\* 0.55, and every file of the result has a pair that reaches 0.55.
C4_Threshold ==
  (Classified /\ Len(mMeta.queries) > 0) =>
    LET surv == SurvivorsOf(PairScores)
    IN /\ (mResult.status = "NOT_FOUND") <=> (surv = {})
       /\ \A k \in 1..Len(ResultFiles) : \E i \in surv : ResultFiles[k] = mPool[i]

\* C4 witness: a pair with common tokens scores below 0.55 and the row is NOT_FOUND
C4_Witness ==
  /\ Classified
  /\ mResult.status = "NOT_FOUND"
  /\ \E q \in 1..Len(mMeta.queries) : \E i \in 1..Len(mPool) :
       IsSome(mScores[q][i]) /\ NumLess(Get(mScores[q][i]), SCORE_THRESHOLD)

\* the survivors ranked by score, the higher first, ties by Earlier: the file at
\* rank k
RankedAt(ps, k, Earlier(_, _)) ==
  LET surv == SurvivorsOf(ps)
      before(j, i) ==
        \/ NumLess(KeptScoreOf(ps, i), KeptScoreOf(ps, j))
        \/ KeptScoreOf(ps, j) = KeptScoreOf(ps, i) /\ Earlier(j, i)
  IN CHOOSE i \in surv : Cardinality({j \in surv : before(j, i)}) = k - 1

\* the candidates are the first min(5, n) survivors in the ranking
CandidatesRanked(Earlier(_, _)) ==
  LET ps == PairScores
      n == Cardinality(SurvivorsOf(ps))
      cands == Get(mResult.candidates)
  IN /\ Len(cands) = (IF n < 5 THEN n ELSE 5)
     /\ \A k \in 1..Len(cands) : cands[k] = mPool[RankedAt(ps, k, Earlier)]

EarlierInPool(j, i) == j < i

EarlierScored(j, i) == FirstScoredOf(PairScores, j) < FirstScoredOf(PairScores, i)

\* C5 as claimed: AMBIGUOUS candidates are the first min(5, n) survivors by score, ties
\* in the order of the candidate pool.
C5_TiesInPoolOrder ==
  (Classified /\ mResult.status = "AMBIGUOUS") => CandidatesRanked(EarlierInPool)

\* C5 amended: AMBIGUOUS candidates are the first min(5, n) survivors by score, ties
\* in the order in which the files first get a surviving score: query by query, and
\* within one query in the order of the pool.
C5_TiesInScoringOrder ==
  (Classified /\ mResult.status = "AMBIGUOUS") => CandidatesRanked(EarlierScored)

\* C5 witness: more than five survivors, two of them with equal scores, cut to five
C5_Witness ==
  /\ Classified
  /\ mResult.status = "AMBIGUOUS"
  /\ Len(Get(mResult.candidates)) = 5
  /\ LET ps == PairScores
     IN /\ Cardinality(SurvivorsOf(ps)) > 5
        /\ \E i, j \in SurvivorsOf(ps) : i /= j /\ KeptScoreOf(ps, i) = KeptScoreOf(ps, j)

\* the file's name holds every token of the query, and there is one
HoldsEveryToken(query, file) ==
  LET qt == tokenize(query)
      ft == tokenize(file.name)
  IN Len(qt) > 0 /\ \A a \in 1..Len(qt) : \E b \in 1..Len(ft) : ft[b] = qt[a]

\* the digits of the file's name hold the digits of a variant of one of the dates
HoldsDate(dates, file) ==
  \E d \in 1..Len(dates) :
    LET variants == getDatePermutations(dates[d])
    IN \E v \in 1..Len(variants) :
         /\ Len(digitsOnly(variants[v])) >= 6
         /\ includes(digitsOnly(file.name), digitsOnly(variants[v]))

\* C6: a file whose name holds every token of a query and the digits of one of the
\* row's dates scores above 1.2 for that query, and the row is FOUND; when it is the
\* only file of the pool it is the matched file.
C6_DateBoostWins ==
  Classified =>
    \A q \in 1..Len(mMeta.queries) : \A i \in 1..Len(mPool) :
      (HoldsEveryToken(mMeta.queries[q], mPool[i]) /\ HoldsDate(mMeta.dates, mPool[i])) =>
        /\ IsSome(mScores[q][i])
        /\ NumLess(HIGH_SCORE, Get(mScores[q][i]))
        /\ NumAtLeast(Get(mScores[q][i]), NumAdd(NumberOf(1, 1), DATE_BOOST))
        /\ mResult.status = "FOUND"
        /\ Len(mPool) = 1 => mResult.file = Some(mPool[i])

\* C6 witness: the report of 20/04/2010 against the one dated file
C6_Witness ==
  /\ Classified
  /\ mText = TextReport
  /\ Len(mPool) = 1
  /\ mPool[1].name = NameDated
  /\ HoldsEveryToken(mMeta.queries[1], mPool[1])
  /\ HoldsDate(mMeta.dates, mPool[1])
  /\ mScores[1][1] = Some(NumAdd(NumberOf(1, 1), DATE_BOOST))
  /\ mResult = [status |-> "FOUND", file |-> Some(mPool[1]), candidates |-> Absent]
(***************************************************************************)
(* Matcher run: the files of a result are files of the pool                *)
(***************************************************************************)
\* the places of a file in the pool
PlacesInPool(file) == {i \in 1..Len(mPool) : mPool[i] = file}

\* C28: every file of a result is a file of the pool the classifier was given: the
\* matchedFile is a file of the pool whose score is at least the score of every other
\* file that survives, and the candidates of an AMBIGUOUS result are between 2 and 5,
\* all files of the pool, with paths that differ pairwise
C28_FromPool ==
  Classified =>
    LET ps == PairScores
        surv == SurvivorsOf(ps)
    IN /\ IsSome(mResult.file) =>
            \E i \in PlacesInPool(Get(mResult.file)) \cap surv :
              \A j \in surv : NumAtLeast(KeptScoreOf(ps, i), KeptScoreOf(ps, j))
       /\ mResult.status = "AMBIGUOUS" =>
            /\ IsSome(mResult.candidates)
            /\ Len(Get(mResult.candidates)) >= 2
            /\ Len(Get(mResult.candidates)) <= 5
            /\ \A k \in 1..Len(Get(mResult.candidates)) :
                 PlacesInPool(Get(mResult.candidates)[k]) # {}
            /\ \A k, n \in 1..Len(Get(mResult.candidates)) :
                 k # n => Get(mResult.candidates)[k].path # Get(mResult.candidates)[n].path

\* an AMBIGUOUS result of a pool of which more than five files survive
C28_Witness ==
  /\ Classified
  /\ mResult.status = "AMBIGUOUS"
  /\ Cardinality(SurvivorsOf(PairScores)) > 5
  /\ Len(Get(mResult.candidates)) = 5

====
